---- MODULE Spec2Model ----
(***************************************************************************)
(* A model of the Carch schema compiler: the lexer (src/src/lexer), the    *)
(* recursive-descent parser (src/src/parser) and the semantic analyzer     *)
(* (src/src/semantic).  Each component has its own specification:          *)
(*   SpecLexer    a Lexer over a byte string, driven by next_token() and   *)
(*                peek_token();                                            *)
(*   SpecParser   a Parser over the token stream its Lexer hands out;      *)
(*   SpecChecker  a TypeChecker over a Schema, running check().            *)
(***************************************************************************)
EXTENDS Integers, Sequences, FiniteSets, TLC

VARIABLES
    \* ---- TypeChecker (src/src/semantic/type_checker.h:25-37)
    schema_,                    \* the Schema under analysis: a sequence of definitions
    errors_,                    \* TypeChecker::errors_
    symbol_table_,              \* name -> index of the definition it points to
    definition_order_,          \* name -> definition index
    current_definition_index_,  \* 0-based, as in the code
    visiting_,
    visited_,
    cycle_def,                  \* the definition the second loop of check_type_definitions is at (1-based)
    check_pc,                   \* where check() stands
    check_result,               \* what check() returned: "none", "true", "false"
    \* ---- Lexer (src/src/lexer/lexer.h:25-32)
    source_,                    \* the bytes under scan
    position_,                  \* 0-based offset of the next byte
    line_,
    column_,
    lexer_errors_,              \* Lexer::errors_
    peeked_token_,              \* the std::optional<Token>; NoToken when empty
    returned_token,             \* what the latest next_token()/peek_token() call returned
    \* ---- Parser (src/src/parser/parser.h:24-26); its lexer_ is the Lexer above
    current_token_,
    parser_errors_,             \* Parser::errors_
    schema,                     \* the definitions of the SchemaNode parse_schema() is filling
    parse_pc,                   \* where the Parser stands
    parse_result,               \* what parse() returned; Null before it returns
    \* ---- the driver (src/src/main.cpp): one compile_file call
    compile_pc,                 \* where compile_file stands
    stages_run,                 \* the stages compile_file has entered so far, in order
    output_file,                \* what write_file left at the output path; NoFile before
    compile_result,             \* what compile_file returned: "none", "true", "false"
    \* ---- main (src/src/main.cpp): the command line and the loop over the input files
    argv,                       \* argv[1..argc-1]
    args,                       \* the CommandLineArgs parse_args returned
    main_pc,                    \* where main stands
    compiled,                   \* the compile_file calls made so far: path and return value
    all_success,
    exit_code,                  \* what main returned; "none" before
    \* ---- a source parsed a second time in another spelling
    source_pieces,              \* the lexical pieces the source was put together from
    first_parse,                \* what parse() returned and reported for the first spelling
    \* ---- check() called a second time on the same TypeChecker
    first_check                 \* what the first check() returned and reported, and on what Schema

checkerVars == <<schema_, errors_, symbol_table_, definition_order_,
                 current_definition_index_, visiting_, visited_, cycle_def, check_pc, check_result>>

lexerVars == <<source_, position_, line_, column_, lexer_errors_, peeked_token_, returned_token>>

parserVars == <<current_token_, parser_errors_, schema, parse_pc, parse_result>>

mainVars == <<argv, args, main_pc, compiled, all_success, exit_code>>

driverVars == <<compile_pc, stages_run, output_file, compile_result, mainVars>>

rerunVars == <<source_pieces, first_parse, first_check>>

vars == <<checkerVars, lexerVars, parserVars, driverVars, rerunVars>>

(***************************************************************************)
(* Bounds of the model.                                                    *)
(***************************************************************************)
MaxDefs == 3      \* definitions in a schema
MaxNest == 2      \* wrappers around a leaf in the nested type expressions
MaxStack == 12    \* call-stack frames check_leaf_nodes may use before the stack overflows
MaxLen == 4       \* bytes in a source handed to the Lexer
MaxPieces == 3    \* lexical pieces in a freely composed source handed to the Parser

(***************************************************************************)
(* AST (src/src/parser/ast.h).  A null unique_ptr is the node Null.        *)
(***************************************************************************)
Null == [k |-> "null"]
PrimitiveTypeNode(t) == [k |-> "Primitive", type |-> t]
RefTypeNode == [k |-> "Ref"]
IdentifierTypeNode(n) == [k |-> "Identifier", name |-> n]
FieldNode(n, t) == [name |-> n, type |-> t]
AlternativeNode(n, t) == [name |-> n, type |-> t]
StructTypeNode(fs) == [k |-> "Struct", fields |-> fs]
VariantTypeNode(as) == [k |-> "Variant", alternatives |-> as]
EnumTypeNode(vs) == [k |-> "Enum", values |-> vs]
ContainerTypeNode(kind, e, key, val) ==
    [k |-> "Container", kind |-> kind, element_type |-> e, key_type |-> key, value_type |-> val]
TypeDefinitionNode(n, t) == [name |-> n, type |-> t]

ArrayOf(t) == ContainerTypeNode("ARRAY", t, Null, Null)
OptionalOf(t) == ContainerTypeNode("OPTIONAL", t, Null, Null)
MapOf(key, val) == ContainerTypeNode("MAP", Null, key, val)

(***************************************************************************)
(* Lexer (src/src/lexer/lexer.cpp).  A byte is a one-character string; a   *)
(* lexeme is a string.             The scanner position (position_, line_, *)
(* column_) travels through the scanning operators as the record ls.       *)
(***************************************************************************)
NUL == "NUL"      \* the '\0' current_char and peek_char return past the end
Letters == {"a", "b", "c", "d", "e", "f", "g", "h", "i", "j", "k", "l", "m", "n", "o", "p", "q", "r", "s", "t", "u", "v", "w", "x", "y", "z", "A", "B", "C", "D", "E", "F", "G", "H", "I", "J", "K", "L", "M", "N", "O", "P", "Q", "R", "S", "T", "U", "V", "W", "X", "Y", "Z"}
Digits == {"0", "1", "2", "3", "4", "5", "6", "7", "8", "9"}
HexLetters == {"a", "b", "c", "d", "e", "f", "A", "B", "C", "D", "E", "F"}
OctalDigits == {"0", "1", "2", "3", "4", "5", "6", "7"}

is_letter(c) == c \in Letters
is_digit(c) == c \in Digits
is_hex_digit(c) == is_digit(c) \/ c \in HexLetters
is_whitespace(c) == c \in {" ", "\t", "\r", "\n"}

Token(type, lexeme, line, column) ==
    [type |-> type, lexeme |-> lexeme, line |-> line, column |-> column, error_message |-> ""]
ErrorToken(message, line, column) ==
    [type |-> "ERROR", lexeme |-> "", line |-> line, column |-> column,
     error_message |-> message]
NoToken == [type |-> "none", lexeme |-> "", line |-> 0, column |-> 0, error_message |-> ""]

is_at_end(ls) == ls.position >= Len(source_)
current_char(ls) == IF is_at_end(ls) THEN NUL ELSE source_[ls.position + 1]
peek_char(ls) == IF ls.position + 1 >= Len(source_) THEN NUL ELSE source_[ls.position + 2]

advance(ls) ==
    IF is_at_end(ls) THEN ls
    ELSE IF source_[ls.position + 1] = "\n"
         THEN [position |-> ls.position + 1, line |-> ls.line + 1, column |-> 1]
         ELSE [position |-> ls.position + 1, line |-> ls.line, column |-> ls.column + 1]

Keywords ==
    ("struct" :> "STRUCT") @@
    ("variant" :> "VARIANT") @@
    ("enum" :> "ENUM") @@
    ("unit" :> "UNIT") @@
    ("array" :> "ARRAY") @@
    ("map" :> "MAP") @@
    ("optional" :> "OPTIONAL") @@
    ("ref" :> "REF") @@
    ("entity" :> "ENTITY") @@
    ("str" :> "STR") @@
    ("int" :> "INT") @@
    ("u8" :> "U8") @@
    ("u16" :> "U16") @@
    ("u32" :> "U32") @@
    ("u64" :> "U64") @@
    ("i8" :> "I8") @@
    ("i16" :> "I16") @@
    ("i32" :> "I32") @@
    ("i64" :> "I64") @@
    ("f32" :> "F32") @@
    ("f64" :> "F64") @@
    ("bool" :> "BOOL") @@
    ("true" :> "TRUE") @@
    ("false" :> "FALSE")
identify_keyword(word) == IF word \in DOMAIN Keywords THEN Keywords[word] ELSE "IDENTIFIER"

\* what a scanning function hands back: the token, the scanner position it
\* leaves, and the diagnostics it appended to errors_
Scanned(token, ls, errs) == [token |-> token, ls |-> ls, errors |-> errs]
\* report_error + Token(message, line_, column_): both read the position of the moment
make_error_token(message, ls) ==
    Scanned(ErrorToken(message, ls.line, ls.column), ls,
            <<[line |-> ls.line, column |-> ls.column, message |-> message]>>)

\* a lexeme under construction and the scanner position behind it
Lexeme(ls, lexeme) == [ls |-> ls, lexeme |-> lexeme]
\* lexeme += current_char(); advance();
take_one(r) == Lexeme(advance(r.ls), r.lexeme \o current_char(r.ls))
\* while (!is_at_end() && <current_char() in the class>) { lexeme += current_char(); advance(); }
RECURSIVE take_while(_, _)
take_while(class, r) ==
    IF ~is_at_end(r.ls) /\ current_char(r.ls) \in class THEN take_while(class, take_one(r)) ELSE r
\* return Token(type, std::move(lexeme), token_line, token_column);
Lexed(type, start, r) == Scanned(Token(type, r.lexeme, start.line, start.column), r.ls, << >>)

scan_identifier_or_keyword(ls) ==
    (LET word(r) == Lexed(identify_keyword(r.lexeme), ls, r)
     IN  word(take_while(Letters \cup Digits \cup {"_"}, Lexeme(ls, ""))))

\* scan_number: the decimal point and the fraction
scan_fraction(r) ==
    IF ~is_at_end(r.ls) /\ current_char(r.ls) = "." /\ is_digit(peek_char(r.ls))
    THEN take_while(Digits, take_one(r)) ELSE r
\* scan_number: the sign of the exponent
scan_exponent_sign(r) ==
    IF ~is_at_end(r.ls) /\ current_char(r.ls) \in {"+", "-"} THEN take_one(r) ELSE r
\* scan_number: the exponent
scan_exponent(r) ==
    IF ~is_at_end(r.ls) /\ current_char(r.ls) \in {"e", "E"}
    THEN take_while(Digits, scan_exponent_sign(take_one(r))) ELSE r
\* scan_number after the sign
scan_number_digits(start, r) ==
    IF current_char(r.ls) = "0" /\ ~is_at_end(r.ls) /\ peek_char(r.ls) \in {"x", "X"}
    THEN Lexed("NUMBER_LITERAL", start, take_while(Digits \cup HexLetters, take_one(take_one(r))))
    ELSE IF current_char(r.ls) = "0" /\ ~is_at_end(r.ls) /\ peek_char(r.ls) \in {"b", "B"}
    THEN Lexed("NUMBER_LITERAL", start, take_while({"0", "1"}, take_one(take_one(r))))
    ELSE IF current_char(r.ls) = "0" /\ ~is_at_end(r.ls) /\ peek_char(r.ls) \in {"o", "O"}
    THEN Lexed("NUMBER_LITERAL", start, take_while(OctalDigits, take_one(take_one(r))))
    ELSE Lexed("NUMBER_LITERAL", start, scan_exponent(scan_fraction(take_while(Digits, r))))

scan_number(ls) ==
    scan_number_digits(ls, IF current_char(ls) = "-" THEN take_one(Lexeme(ls, ""))
                           ELSE Lexeme(ls, ""))

\* the byte a \xHH escape stands for, named by its two digits' values
HexDigitValue(c) ==
    CASE c \in Digits -> CHOOSE v \in 0..9 : ToString(v) = c
      [] c \in {"a", "A"} -> 10 [] c \in {"b", "B"} -> 11 [] c \in {"c", "C"} -> 12
      [] c \in {"d", "D"} -> 13 [] c \in {"e", "E"} -> 14 [] c \in {"f", "F"} -> 15
HexByte(first, second) == "byte" \o ToString(HexDigitValue(first) * 16 + HexDigitValue(second))
Escaped(c) ==
    CASE c = "n" -> "\n" [] c = "t" -> "\t" [] c = "r" -> "\r" [] c = "0" -> "byte0"
      [] OTHER -> c      \* \\ \" \' and every unknown escape stand for the character itself

\* the while loop of scan_string
RECURSIVE scan_string_body(_, _, _)
scan_string_body(start, ls, lexeme) ==
    IF ~is_at_end(ls) /\ current_char(ls) /= "\""
    THEN IF current_char(ls) = "\\"
         THEN LET l1 == advance(ls) IN
              IF is_at_end(l1) THEN make_error_token("Unterminated string literal", l1)
              ELSE IF current_char(l1) = "x"
              THEN LET l2 == advance(l1) IN
                   IF is_at_end(l2) \/ ~is_hex_digit(current_char(l2))
                   THEN make_error_token("Invalid hex escape sequence: missing first hex digit", l2)
                   ELSE LET l3 == advance(l2) IN
                        IF is_at_end(l3) \/ ~is_hex_digit(current_char(l3))
                        THEN make_error_token(
                                 "Invalid hex escape sequence: missing second hex digit", l3)
                        ELSE scan_string_body(start, advance(l3),
                                 lexeme \o (HexByte(current_char(l2), current_char(l3))))
              ELSE scan_string_body(start, advance(l1), lexeme \o (Escaped(current_char(l1))))
         ELSE scan_string_body(start, advance(ls), lexeme \o (current_char(ls)))
    ELSE IF is_at_end(ls) THEN make_error_token("Unterminated string literal", ls)
         ELSE Scanned(Token("STRING_LITERAL", lexeme, start.line, start.column), advance(ls), << >>)

scan_string(ls) == scan_string_body(ls, advance(ls), "")

\* while (!is_at_end() && current_char() != '\n') { lexeme += current_char(); advance(); }
RECURSIVE take_line(_)
take_line(r) ==
    IF ~is_at_end(r.ls) /\ current_char(r.ls) /= "\n" THEN take_line(take_one(r)) ELSE r

scan_single_line_comment(ls) == Lexed("COMMENT", ls, take_line(Lexeme(advance(advance(ls)), "")))

\* the while loop of scan_multi_line_comment
RECURSIVE scan_multi_line_body(_, _, _)
scan_multi_line_body(start, ls, lexeme) ==
    IF is_at_end(ls) THEN make_error_token("Unterminated multi-line comment", ls)
    ELSE IF current_char(ls) = "*" /\ peek_char(ls) = "/"
         THEN Scanned(Token("COMMENT", lexeme, start.line, start.column),
                      advance(advance(ls)), << >>)
         ELSE scan_multi_line_body(start, advance(ls), lexeme \o (current_char(ls)))

scan_multi_line_comment(ls) == scan_multi_line_body(ls, advance(advance(ls)), "")

\* while (!is_at_end() && is_whitespace(current_char()) && current_char() != '\n') advance();
RECURSIVE skip_whitespace(_)
skip_whitespace(ls) ==
    IF ~is_at_end(ls) /\ is_whitespace(current_char(ls)) /\ current_char(ls) /= "\n"
    THEN skip_whitespace(advance(ls)) ELSE ls

Symbols ==
    (":" :> "COLON") @@ ("," :> "COMMA") @@ ("{" :> "LBRACE") @@ ("}" :> "RBRACE") @@
    ("<" :> "LANGLE") @@ (">" :> "RANGLE") @@ ("(" :> "LPAREN") @@ (")" :> "RPAREN")

\* an unknown-character branch that reports without consuming the byte
scan_unknown_character_in_place(ls) ==
    make_error_token("Unexpected character: '" \o current_char(ls) \o "'", ls)

\* the unknown-character branch of scan_token
scan_unknown_character(ls) ==
    make_error_token("Unexpected character: '" \o current_char(ls) \o "'", advance(ls))

\* a scan_token that steps over the end of the input when it hands out END_OF_FILE
scan_token_at_stepping_over_end(ls, c) ==
    IF is_at_end(ls)
    THEN Scanned(Token("END_OF_FILE", "", ls.line, ls.column),
                 [position |-> ls.position, line |-> ls.line, column |-> ls.column + 1], << >>)
    ELSE IF c = "\n" THEN Scanned(Token("NEWLINE", "\n", ls.line, ls.column), advance(ls), << >>)
    ELSE IF c = "/" /\ peek_char(ls) = "/" THEN scan_single_line_comment(ls)
    ELSE IF c = "/" /\ peek_char(ls) = "*" THEN scan_multi_line_comment(ls)
    ELSE IF c \in DOMAIN Symbols
         THEN Scanned(Token(Symbols[c], c, ls.line, ls.column), advance(ls), << >>)
    ELSE IF c = "\"" THEN scan_string(ls)
    ELSE IF is_digit(c) \/ (c = "-" /\ is_digit(peek_char(ls))) THEN scan_number(ls)
    ELSE IF is_letter(c) \/ c = "_" THEN scan_identifier_or_keyword(ls)
    ELSE scan_unknown_character(ls)
\* scan_token after the whitespace loop
scan_token_at(ls, c) ==
    IF is_at_end(ls) THEN Scanned(Token("END_OF_FILE", "", ls.line, ls.column), ls, << >>)
    ELSE IF c = "\n" THEN Scanned(Token("NEWLINE", "\n", ls.line, ls.column), advance(ls), << >>)
    ELSE IF c = "/" /\ peek_char(ls) = "/" THEN scan_single_line_comment(ls)
    ELSE IF c = "/" /\ peek_char(ls) = "*" THEN scan_multi_line_comment(ls)
    ELSE IF c \in DOMAIN Symbols
         THEN Scanned(Token(Symbols[c], c, ls.line, ls.column), advance(ls), << >>)
    ELSE IF c = "\"" THEN scan_string(ls)
    ELSE IF is_digit(c) \/ (c = "-" /\ is_digit(peek_char(ls))) THEN scan_number(ls)
    ELSE IF is_letter(c) \/ c = "_" THEN scan_identifier_or_keyword(ls)
    ELSE scan_unknown_character(ls)

scan_token(ls0) ==
    (LET at(ls) == scan_token_at(ls, current_char(ls)) IN at(skip_whitespace(ls0)))

(***************************************************************************)
(* The Lexer as a state machine: construction, next_token(), peek_token(). *)
(***************************************************************************)
\* bytes that meet in comments, strings, escapes and unknown characters
CoreAlphabet == {" ", "\n", "/", "*", "\"", "\\", "x", "0", ":"}
\* bytes that meet in numbers, identifiers and keywords
WordAlphabet == {"0", "8", "x", "e", "-", ".", "u"}
Strings(alphabet) == UNION {[1..n -> alphabet] : n \in 0..MaxLen}
Sources == Strings(CoreAlphabet) \cup Strings(WordAlphabet)

LexerIdle ==
    /\ source_ = << >>
    /\ position_ = 0
    /\ line_ = 1
    /\ column_ = 1
    /\ lexer_errors_ = << >>
    /\ peeked_token_ = NoToken
    /\ returned_token = NoToken

CheckerIdle ==
    /\ schema_ = << >>
    /\ errors_ = << >>
    /\ symbol_table_ = << >>
    /\ definition_order_ = << >>
    /\ current_definition_index_ = 0
    /\ visiting_ = {}
    /\ visited_ = {}
    /\ cycle_def = 1
    /\ check_pc = "idle"
    /\ check_result = "none"

ParserIdle ==
    /\ current_token_ = NoToken
    /\ parser_errors_ = << >>
    /\ schema = << >>
    /\ parse_pc = "idle"
    /\ parse_result = Null

NoArgs == [k |-> "no args"]
MainIdle ==
    /\ argv = << >>
    /\ args = NoArgs
    /\ main_pc = "idle"
    /\ compiled = << >>
    /\ all_success = TRUE
    /\ exit_code = "none"

NoFile == [k |-> "no file"]
DriverIdle ==
    /\ compile_pc = "idle"
    /\ stages_run = << >>
    /\ output_file = NoFile
    /\ compile_result = "none"
    /\ MainIdle

NoParse == [k |-> "no parse"]
NoCheck == [k |-> "no check"]
RerunIdle ==
    /\ source_pieces = << >>
    /\ first_parse = NoParse
    /\ first_check = NoCheck

InitLexer ==
    /\ source_ \in Sources
    /\ position_ = 0
    /\ line_ = 1
    /\ column_ = 1
    /\ lexer_errors_ = << >>
    /\ peeked_token_ = NoToken
    /\ returned_token = NoToken
    /\ CheckerIdle
    /\ ParserIdle
    /\ DriverIdle
    /\ RerunIdle

\* the Lexer object: its scanner position, its errors_ and its peeked_token_
LexerObject(ls, errs, peeked) == [ls |-> ls, errors |-> errs, peeked |-> peeked]
lexer_ ==
    LexerObject([position |-> position_, line |-> line_, column |-> column_],
                lexer_errors_, peeked_token_)
\* a call's outcome: the token it returns and the Lexer it leaves
Called(token, lx) == [token |-> token, lx |-> lx]

\* the outcome of a call that ran scan_token(): peek_token() keeps the token
scanned_token(lx, r, keep) ==
    Called(r.token, LexerObject(r.ls, lx.errors \o r.errors, IF keep THEN r.token ELSE lx.peeked))

\* a next_token() that reports a buffered ERROR token once more when it hands it out
next_token_reporting_again(lx) ==
    IF lx.peeked /= NoToken
    THEN Called(lx.peeked,
                LexerObject(lx.ls,
                            IF lx.peeked.type = "ERROR"
                            THEN lx.errors \o <<[line |-> lx.ls.line, column |-> lx.ls.column,
                                                 message |-> lx.peeked.error_message]>>
                            ELSE lx.errors,
                            NoToken))
    ELSE scanned_token(lx, scan_token(lx.ls), FALSE)
next_token(lx) ==
    IF lx.peeked /= NoToken
    THEN Called(lx.peeked, LexerObject(lx.ls, lx.errors, NoToken))
    ELSE scanned_token(lx, scan_token(lx.ls), FALSE)

\* a peek_token() that hands the token out without keeping it
peek_token_forgetful(lx) ==
    IF lx.peeked = NoToken
    THEN scanned_token(lx, scan_token(lx.ls), FALSE)
    ELSE Called(lx.peeked, lx)
peek_token(lx) ==
    IF lx.peeked = NoToken
    THEN scanned_token(lx, scan_token(lx.ls), TRUE)
    ELSE Called(lx.peeked, lx)

has_more_tokens(lx) == ~is_at_end(lx.ls)

\* the Lexer fields after a call
LexerBecomes(lx) ==
    /\ position_' = lx.ls.position
    /\ line_' = lx.ls.line
    /\ column_' = lx.ls.column
    /\ lexer_errors_' = lx.errors
    /\ peeked_token_' = lx.peeked
    /\ UNCHANGED source_

NextToken ==
    /\ LET c == next_token(lexer_) IN
       /\ LexerBecomes(c.lx)
       /\ returned_token' = c.token
    /\ UNCHANGED <<checkerVars, parserVars, driverVars, rerunVars>>

PeekToken ==
    /\ LET c == peek_token(lexer_) IN
       /\ LexerBecomes(c.lx)
       /\ returned_token' = c.token
    /\ UNCHANGED <<checkerVars, parserVars, driverVars, rerunVars>>

NextLexer == NextToken \/ PeekToken

SpecLexer == InitLexer /\ [][NextLexer]_vars

\* ---- C1: a call that scans (no token is held back in peeked_token_) on an
\* unexhausted input moves position_ strictly forward; a call that scans on an
\* exhausted input returns END_OF_FILE; position_ never passes the end of the
\* input, so only finitely many calls can return anything else; and END_OF_FILE
\* is only ever handed out when the input is exhausted.
ScanProgress ==
    /\ (peeked_token_ = NoToken /\ position_ < Len(source_)) => position_' > position_
    /\ (peeked_token_ = NoToken /\ position_ >= Len(source_))
           => returned_token'.type = "END_OF_FILE"
    /\ position_' <= Len(source_)
C1_LexerTotalAndProgressing ==
    /\ [][ScanProgress]_lexerVars
    /\ [](returned_token.type = "END_OF_FILE" => position_ = Len(source_))
\* a malformed input has been scanned to its end, with two diagnostics on the way
C1_Witness ==
    /\ returned_token.type = "END_OF_FILE"
    /\ Len(lexer_errors_) >= 2
    /\ position_ = Len(source_)

\* ---- C18: peek_token() returns the token the next next_token() returns and
\* consumes nothing.  A peek_token() call returns what next_token() would have
\* returned in its place; after it, another peek_token() returns the same token
\* and changes nothing, and next_token() returns the same token (kind, lexeme,
\* line, column) and leaves the Lexer exactly as next_token() without the peek
\* would have left it, so the tokens next_token() hands out are the same with
\* or without peeks in between.  One token at most is buffered: a peek_token()
\* on a Lexer that holds a token scans nothing, and next_token() empties the buffer.
PeekReturnsTheNextToken ==
    /\ returned_token' = next_token(lexer_).token
    /\ peeked_token_' = returned_token'
    /\ peek_token(lexer_').token = returned_token'
    /\ peek_token(lexer_').lx = lexer_'
    /\ next_token(lexer_').token = returned_token'
    /\ next_token(lexer_').lx = next_token(lexer_).lx
    /\ peeked_token_ /= NoToken => UNCHANGED <<position_, line_, column_, lexer_errors_>>
NextEmptiesTheBuffer ==
    /\ peeked_token_' = NoToken
    /\ peeked_token_ /= NoToken =>
           /\ returned_token' = peeked_token_
           /\ UNCHANGED <<position_, line_, column_, lexer_errors_>>
C18_PeekDoesNotConsume ==
    [][(PeekToken => PeekReturnsTheNextToken) /\ (NextToken => NextEmptiesTheBuffer)]_vars
\* a token of the second line is held in the buffer and was returned by peek_token()
C18_Witness ==
    /\ peeked_token_ /= NoToken
    /\ returned_token = peeked_token_
    /\ peeked_token_.type \notin {"END_OF_FILE", "NEWLINE"}
    /\ peeked_token_.line = 2

\* ---- C19: has_more_tokens() agrees with the token stream: in every
\* reachable state of the Lexer, a token buffered by peek_token() or not, when
\* has_more_tokens() returns false the next next_token() returns END_OF_FILE.
C19_NoMoreTokensMeansEndOfFile ==
    ~has_more_tokens(lexer_) => next_token(lexer_).token.type = "END_OF_FILE"

\* what holds of has_more_tokens(): it speaks of the scanner position alone, so
\* it is right whenever no token is held in the buffer
NoMoreTokensMeansEndOfFileUnbuffered ==
    (peeked_token_ = NoToken /\ ~has_more_tokens(lexer_))
        => next_token(lexer_).token.type = "END_OF_FILE"

\* the line and the column of the byte at a 0-based offset, counted from the
\* text: one more line per '\n' before it, one more column per byte since the
\* last '\n' (or the start)
NewlinesBefore(offset) == {i \in 1..offset : source_[i] = "\n"}
LineOfOffset(offset) == 1 + Cardinality(NewlinesBefore(offset))
ColumnOfOffset(offset) ==
    IF NewlinesBefore(offset) = {} THEN offset + 1
    ELSE offset + 1 - (CHOOSE i \in NewlinesBefore(offset) : \A j \in NewlinesBefore(offset) : j <= i)
\* the token scan_token() makes out of the text at ls carries the position of its first byte
CarriesFirstBytePosition(token, first) ==
    /\ token.line = LineOfOffset(first.position)
    /\ token.column = ColumnOfOffset(first.position)
NextScannedToken == scan_token(lexer_.ls).token
NextScannedFirstByte == skip_whitespace(lexer_.ls)

\* ---- C20: every token the Lexer returns, ERROR tokens included, carries the
\* line and column of the first byte of the text it was scanned from (lines
\* from 1, one more at each '\n'; columns from 1, one more per byte, back to 1
\* after a '\n').
ReturnedCarriesFirstBytePosition ==
    (peeked_token_ = NoToken /\ returned_token'.type /= "END_OF_FILE")
        => CarriesFirstBytePosition(returned_token', NextScannedFirstByte)
C20_TokensCarryFirstBytePosition == [][ReturnedCarriesFirstBytePosition]_vars

\* what holds: the scanner's line_ and column_ are those of the byte at
\* position_, and every token but an ERROR token carries its first byte's position
PositionTrackingExceptErrors ==
    /\ line_ = LineOfOffset(position_)
    /\ column_ = ColumnOfOffset(position_)
    /\ NextScannedToken.type \notin {"END_OF_FILE", "ERROR"}
           => CarriesFirstBytePosition(NextScannedToken, NextScannedFirstByte)
\* an ERROR token carries the position the scanner stood at when it gave up
ErrorTokensCarryEndPosition ==
    NextScannedToken.type = "ERROR" =>
        /\ NextScannedToken.line = scan_token(lexer_.ls).ls.line
        /\ NextScannedToken.column = scan_token(lexer_.ls).ls.column
        /\ ~CarriesFirstBytePosition(NextScannedToken, NextScannedFirstByte)

\* the number of ERROR tokens scan_token() makes out of the text between the
\* scanner position ls and position_
RECURSIVE ErrorTokensScannedFrom(_)
ErrorTokensScannedAfter(r) ==
    (IF r.token.type = "ERROR" THEN 1 ELSE 0) + ErrorTokensScannedFrom(r.ls)
ErrorTokensScannedFrom(ls) ==
    IF ls.position >= position_ THEN 0 ELSE ErrorTokensScannedAfter(scan_token(ls))
ErrorTokensScanned == ErrorTokensScannedFrom([position |-> 0, line |-> 1, column |-> 1])
\* a call appends one diagnostic when it scans an ERROR token and none otherwise
OneDiagnosticPerErrorToken ==
    /\ peeked_token_ /= NoToken => lexer_errors_' = lexer_errors_
    /\ (peeked_token_ = NoToken /\ returned_token'.type = "ERROR") =>
           /\ Len(lexer_errors_') = Len(lexer_errors_) + 1
           /\ SubSeq(lexer_errors_', 1, Len(lexer_errors_)) = lexer_errors_
           /\ lexer_errors_'[Len(lexer_errors_')].message = returned_token'.error_message
    /\ (peeked_token_ = NoToken /\ returned_token'.type /= "ERROR") =>
           lexer_errors_' = lexer_errors_

\* ---- C21: every ERROR token the Lexer scans appends exactly one diagnostic
\* to errors() and nothing else appends to it: after any sequence of
\* next_token() and peek_token() calls, errors().size() is the number of ERROR
\* tokens scanned so far; a call that hands out a buffered token (an ERROR
\* token peeked any number of times and then consumed) appends nothing.
C21_OneDiagnosticPerErrorToken ==
    /\ [](Len(lexer_errors_) = ErrorTokensScanned)
    /\ [][OneDiagnosticPerErrorToken]_vars
\* the second ERROR token of the input is held in the buffer, reported twice in all
C21_Witness ==
    /\ peeked_token_.type = "ERROR"
    /\ returned_token = peeked_token_
    /\ Len(lexer_errors_) = 2

\* ---- C29: END_OF_FILE is absorbing.  Once a call has returned END_OF_FILE
\* (next_token(), or the peek_token() before it), every later next_token()
\* and peek_token() call returns END_OF_FILE with the same line and column,
\* and the scanner position (position_, line_, column_) and the errors() list
\* no longer change.
EndOfFileStays ==
    returned_token.type = "END_OF_FILE" =>
        /\ returned_token' = returned_token
        /\ next_token(lexer_').token = returned_token
        /\ peek_token(lexer_').token = returned_token
        /\ UNCHANGED <<position_, line_, column_, lexer_errors_>>
C29_EndOfFileAbsorbing == [][EndOfFileStays]_vars
\* END_OF_FILE on the second line was returned after a diagnostic and is held in the buffer
C29_Witness ==
    /\ returned_token.type = "END_OF_FILE"
    /\ peeked_token_ = returned_token
    /\ returned_token.line = 2
    /\ lexer_errors_ /= << >>
    /\ position_ = Len(source_)

(***************************************************************************)
(* Parser (src/src/parser/parser.cpp).  The Parser object travels through  *)
(* the parsing operators as the record ps: the Lexer it reads from, its    *)
(* current_token_ and its errors_.  ps.stalled is raised when an iteration *)
(* of a body loop goes round without having consumed a token, which in the *)
(* code is a loop that never ends.                                         *)
(***************************************************************************)
ParserObject(lx, token, errs) ==
    [lx |-> lx, current_token_ |-> token, errors_ |-> errs, stalled |-> FALSE]
\* what a parsing function hands back: the node (Null for nullptr) and the Parser it leaves
Parsed(ps, node) == [ps |-> ps, node |-> node]

\* at least one token was consumed between two Parser states
Consumed(before, after) ==
    \/ after.lx.ls.position > before.lx.ls.position
    \/ before.current_token_.type /= "END_OF_FILE" /\ after.current_token_.type = "END_OF_FILE"
\* the Parser at the end of a loop iteration that continues
GoRound(before, after) == IF Consumed(before, after) THEN after ELSE [after EXCEPT !.stalled = TRUE]

\* the do-while loop of Parser::advance, with the token next_token() handed out
RECURSIVE Parser_advance(_)
\* an advance() that stops at a NEWLINE token
Parser_advance_token_newline_visible(ps, c) ==
    IF c.token.type \in {"COMMENT", "WHITESPACE"}
    THEN Parser_advance([ps EXCEPT !.lx = c.lx, !.current_token_ = c.token])
    ELSE [ps EXCEPT !.lx = c.lx, !.current_token_ = c.token]
\* an advance() that passes over ERROR tokens as it passes over comments
Parser_advance_token_skipping_errors(ps, c) ==
    IF c.token.type \in {"COMMENT", "WHITESPACE", "NEWLINE", "ERROR"}
    THEN Parser_advance([ps EXCEPT !.lx = c.lx, !.current_token_ = c.token])
    ELSE [ps EXCEPT !.lx = c.lx, !.current_token_ = c.token]
Parser_advance_token(ps, c) ==
    IF c.token.type \in {"COMMENT", "WHITESPACE", "NEWLINE"}
    THEN Parser_advance([ps EXCEPT !.lx = c.lx, !.current_token_ = c.token])
    ELSE [ps EXCEPT !.lx = c.lx, !.current_token_ = c.token]
Parser_advance(ps) == Parser_advance_token(ps, next_token(ps.lx))

Parser_check(ps, type) == ps.current_token_.type = type

match(ps, type) ==
    IF Parser_check(ps, type) THEN [ps |-> Parser_advance(ps), matched |-> TRUE]
    ELSE [ps |-> ps, matched |-> FALSE]

Parser_report_error(ps, message) ==
    [ps EXCEPT !.errors_ = Append(@, [line |-> ps.current_token_.line,
                                      column |-> ps.current_token_.column,
                                      message |-> message])]

\* no caller reads the Token expect() returns
expect(ps, type, message) ==
    IF Parser_check(ps, type) THEN Parser_advance(ps) ELSE Parser_report_error(ps, message)

\* while (match(NEWLINE)) {}
RECURSIVE skip_newlines(_)
skip_newlines(ps) ==
    IF Parser_check(ps, "NEWLINE") THEN skip_newlines(Parser_advance(ps)) ELSE ps

RECURSIVE synchronize_loop(_)
synchronize_loop(ps) ==
    IF ~Parser_check(ps, "END_OF_FILE")
    THEN IF ps.current_token_.type = "NEWLINE" THEN Parser_advance(ps)
         ELSE IF Parser_check(ps, "IDENTIFIER") THEN ps
         ELSE synchronize_loop(Parser_advance(ps))
    ELSE ps

synchronize(ps) == synchronize_loop(Parser_advance(ps))

PrimitiveTokens ==
    {"STR", "INT", "BOOL", "UNIT", "U8", "U16", "U32", "U64", "I8", "I16", "I32", "I64",
     "F32", "F64"}
Parser_is_primitive_type(ps) == ps.current_token_.type \in PrimitiveTokens
token_to_primitive_type(type) == IF type \in PrimitiveTokens THEN type ELSE "INT"


RECURSIVE parse_type_expr(_)

\* a parse_field that stores the field whatever parse_type_expr returned
parse_field_keeping_failed_type(ps) ==
    IF ~Parser_check(ps, "IDENTIFIER")
    THEN Parsed(Parser_report_error(ps, "Expected field name"), Null)
    ELSE (LET field(type_expr) ==
                  Parsed(type_expr.ps, FieldNode(ps.current_token_.lexeme, type_expr.node))
          IN  field(parse_type_expr(expect(Parser_advance(ps), "COLON",
                                           "Expected ':' after field name"))))
parse_field(ps) ==
    IF ~Parser_check(ps, "IDENTIFIER")
    THEN Parsed(Parser_report_error(ps, "Expected field name"), Null)
    ELSE (LET field(type_expr) ==
                  IF type_expr.node = Null THEN Parsed(type_expr.ps, Null)
                  ELSE Parsed(type_expr.ps, FieldNode(ps.current_token_.lexeme, type_expr.node))
          IN  field(parse_type_expr(expect(Parser_advance(ps), "COLON",
                                           "Expected ':' after field name"))))

\* a parse_alternative that gives a bare alternative a unit node of its own
parse_alternative_type_explicit_unit(name_token, m) ==
    IF m.matched
    THEN (LET typed(type_expr) ==
                  Parsed(type_expr.ps, AlternativeNode(name_token.lexeme, type_expr.node))
          IN  typed(parse_type_expr(m.ps)))
    ELSE Parsed(m.ps, AlternativeNode(name_token.lexeme, PrimitiveTypeNode("UNIT")))
\* parse_alternative after the name: alt->type is whatever parse_type_expr returns
parse_alternative_type(name_token, m) ==
    IF m.matched
    THEN (LET typed(type_expr) ==
                  Parsed(type_expr.ps, AlternativeNode(name_token.lexeme, type_expr.node))
          IN  typed(parse_type_expr(m.ps)))
    ELSE Parsed(m.ps, AlternativeNode(name_token.lexeme, Null))

parse_alternative(ps) ==
    IF ~Parser_check(ps, "IDENTIFIER")
    THEN Parsed(Parser_report_error(ps, "Expected alternative name"), Null)
    ELSE parse_alternative_type(ps.current_token_, match(Parser_advance(ps), "COLON"))

\* an end of iteration that goes round again where the code breaks out
end_of_iteration_unbroken(before, m) ==
    IF m.matched THEN [ps |-> GoRound(before, skip_newlines(m.ps)), again |-> TRUE]
    ELSE [ps |-> GoRound(before, m.ps), again |-> TRUE]
\* an end of iteration that takes a comma as the promise of another member
end_of_iteration_comma_needs_member(before, m) ==
    IF m.matched
    THEN IF Parser_check(skip_newlines(m.ps), "RBRACE")
         THEN [ps |-> Parser_report_error(skip_newlines(m.ps), "Expected a member after ','"),
               again |-> FALSE]
         ELSE [ps |-> GoRound(before, skip_newlines(m.ps)), again |-> TRUE]
    ELSE IF ~Parser_check(m.ps, "RBRACE") THEN [ps |-> m.ps, again |-> FALSE]
    ELSE [ps |-> GoRound(before, m.ps), again |-> TRUE]
\* the end of an iteration of a body loop, after match(COMMA) answered m: the
\* Parser it leaves and whether the loop goes on (no comma and no '}' is a break)
end_of_iteration(before, m) ==
    IF m.matched THEN [ps |-> GoRound(before, skip_newlines(m.ps)), again |-> TRUE]
    ELSE IF ~Parser_check(m.ps, "RBRACE") THEN [ps |-> m.ps, again |-> FALSE]
    ELSE [ps |-> GoRound(before, m.ps), again |-> TRUE]
\* an item pushed back unless it is nullptr
push_back(items, item) == IF item.node /= Null THEN Append(items, item.node) ELSE items

\* the while loop of parse_struct_type
RECURSIVE parse_struct_fields(_, _)
parse_struct_fields_next(fields, e) ==
    IF e.again THEN parse_struct_fields(e.ps, fields) ELSE Parsed(e.ps, fields)
parse_struct_fields_field(before, fields, field) ==
    parse_struct_fields_next(push_back(fields, field),
        end_of_iteration(before, match(skip_newlines(field.ps), "COMMA")))
parse_struct_fields(ps, fields) ==
    IF ps.stalled THEN Parsed(ps, fields)
    ELSE IF ~Parser_check(ps, "RBRACE") /\ ~Parser_check(ps, "END_OF_FILE")
    THEN parse_struct_fields_field(ps, fields, parse_field(ps))
    ELSE Parsed(ps, fields)

parse_struct_type(ps) ==
    (LET close(body) ==
             Parsed(expect(body.ps, "RBRACE", "Expected '}' after struct fields"), StructTypeNode(body.node))
     IN  close(parse_struct_fields(
                   skip_newlines(expect(expect(ps, "STRUCT", "Expected 'struct'"),
                                        "LBRACE", "Expected '{' after 'struct'")), << >>)))

\* the while loop of parse_variant_type
RECURSIVE parse_variant_alternatives(_, _)
parse_variant_alternatives_next(alternatives, e) ==
    IF e.again THEN parse_variant_alternatives(e.ps, alternatives) ELSE Parsed(e.ps, alternatives)
parse_variant_alternatives_alt(before, alternatives, alt) ==
    parse_variant_alternatives_next(push_back(alternatives, alt),
        end_of_iteration(before, match(skip_newlines(alt.ps), "COMMA")))
parse_variant_alternatives(ps, alternatives) ==
    IF ps.stalled THEN Parsed(ps, alternatives)
    ELSE IF ~Parser_check(ps, "RBRACE") /\ ~Parser_check(ps, "END_OF_FILE")
    THEN parse_variant_alternatives_alt(ps, alternatives, parse_alternative(ps))
    ELSE Parsed(ps, alternatives)

parse_variant_type(ps) ==
    (LET close(body) ==
             Parsed(expect(body.ps, "RBRACE", "Expected '}' after variant alternatives"), VariantTypeNode(body.node))
     IN  close(parse_variant_alternatives(
                   skip_newlines(expect(expect(ps, "VARIANT", "Expected 'variant'"),
                                        "LBRACE", "Expected '{' after 'variant'")), << >>)))

\* the while loop of parse_enum_type
RECURSIVE parse_enum_values(_, _)
parse_enum_values_next(values, e) ==
    IF e.again THEN parse_enum_values(e.ps, values) ELSE Parsed(e.ps, values)
parse_enum_values(ps, values) ==
    IF ps.stalled THEN Parsed(ps, values)
    ELSE IF ~Parser_check(ps, "RBRACE") /\ ~Parser_check(ps, "END_OF_FILE")
    THEN IF ~Parser_check(ps, "IDENTIFIER")
         THEN Parsed(Parser_report_error(ps, "Expected enum value"), values)  \* break
         ELSE parse_enum_values_next(Append(values, ps.current_token_.lexeme),
                  end_of_iteration(ps, match(skip_newlines(Parser_advance(ps)), "COMMA")))
    ELSE Parsed(ps, values)

parse_enum_type(ps) ==
    (LET close(body) ==
             Parsed(expect(body.ps, "RBRACE", "Expected '}' after enum values"), EnumTypeNode(body.node))
     IN  close(parse_enum_values(
                   skip_newlines(expect(expect(ps, "ENUM", "Expected 'enum'"),
                                        "LBRACE", "Expected '{' after 'enum'")), << >>)))

parse_primitive_type(ps) ==
    IF ~Parser_is_primitive_type(ps)
    THEN Parsed(Parser_report_error(ps, "Expected primitive type"), Null)
    ELSE Parsed(Parser_advance(ps),
                PrimitiveTypeNode(token_to_primitive_type(ps.current_token_.type)))

\* the end of parse_container_type: expect('>') and the container around its parameters
container_node(kind, key, last) ==
    Parsed(expect(last.ps, "RANGLE", "Expected '>' after container type parameter"),
           IF kind = "MAP" THEN ContainerTypeNode(kind, Null, key.node, last.node)
           ELSE ContainerTypeNode(kind, last.node, Null, Null))
\* the map branch after the key: expect(','), then the value
parse_map_value(kind, key) ==
    container_node(kind, key,
        parse_type_expr(expect(key.ps, "COMMA", "Expected ',' between map key and value types")))
\* parse_container_type after expect('<')
parse_container_parameters(kind, ps) ==
    IF kind = "MAP" THEN parse_map_value(kind, parse_type_expr(ps))
    ELSE container_node(kind, Parsed(ps, Null), parse_type_expr(ps))

parse_container_type(ps) ==
    IF ps.current_token_.type \notin {"ARRAY", "MAP", "OPTIONAL"}
    THEN Parsed(Parser_report_error(ps, "Expected container type"), Null)
    ELSE parse_container_parameters(ps.current_token_.type,
             expect(Parser_advance(ps), "LANGLE", "Expected '<' after container type"))

\* a ref type that takes whatever token stands between '<' and '>'
parse_ref_type_any_parameter(ps) ==
    Parsed(expect(Parser_advance(expect(expect(ps, "REF", "Expected 'ref'"),
                                        "LANGLE", "Expected '<' after 'ref'")),
                  "RANGLE", "Expected '>' after 'entity'"),
           RefTypeNode)

\* a ref type that also takes the name of a type between '<' and '>'
parse_ref_type_named_parameter(ps) ==
    (LET parameter(p) ==
             IF Parser_check(p, "IDENTIFIER") THEN Parser_advance(p)
             ELSE expect(p, "ENTITY", "Expected 'entity' in ref type")
     IN  Parsed(expect(parameter(expect(expect(ps, "REF", "Expected 'ref'"),
                                        "LANGLE", "Expected '<' after 'ref'")),
                       "RANGLE", "Expected '>' after 'entity'"),
                RefTypeNode))

parse_ref_type(ps) ==
    Parsed(expect(expect(expect(expect(ps, "REF", "Expected 'ref'"),
                                "LANGLE", "Expected '<' after 'ref'"),
                         "ENTITY", "Expected 'entity' in ref type"),
                  "RANGLE", "Expected '>' after 'entity'"),
           RefTypeNode)

parse_type_expr(ps) ==
    IF Parser_check(ps, "STRUCT") THEN parse_struct_type(ps)
    ELSE IF Parser_check(ps, "VARIANT") THEN parse_variant_type(ps)
    ELSE IF Parser_check(ps, "ENUM") THEN parse_enum_type(ps)
    ELSE IF ps.current_token_.type \in {"ARRAY", "MAP", "OPTIONAL"} THEN parse_container_type(ps)
    ELSE IF Parser_check(ps, "REF") THEN parse_ref_type(ps)
    ELSE IF Parser_is_primitive_type(ps) THEN parse_primitive_type(ps)
    ELSE IF Parser_check(ps, "IDENTIFIER")
         THEN Parsed(Parser_advance(ps), IdentifierTypeNode(ps.current_token_.lexeme))
    ELSE Parsed(Parser_report_error(ps, "Expected type expression"), Null)

parse_type_definition(ps) ==
    IF ~Parser_check(ps, "IDENTIFIER")
    THEN Parsed(Parser_report_error(ps, "Expected type name"), Null)
    ELSE (LET def(type_expr) ==
                  IF type_expr.node = Null THEN Parsed(type_expr.ps, Null)
                  ELSE Parsed(type_expr.ps,
                              TypeDefinitionNode(ps.current_token_.lexeme, type_expr.node))
          IN  def(parse_type_expr(expect(Parser_advance(ps), "COLON",
                                         "Expected ':' after type name"))))

\* the loop body of parse_schema after parse_type_definition() returned def
parse_schema_definition(definitions, def) ==
    IF def.node /= Null
    THEN Parsed(skip_newlines(def.ps), Append(definitions, def.node))
    ELSE Parsed(skip_newlines(synchronize(def.ps)), definitions)
\* one iteration of the while loop of parse_schema: the Parser and the definitions after it
parse_schema_iteration(ps, definitions) ==
    parse_schema_definition(definitions, parse_type_definition(ps))
SchemaNode(definitions) == [k |-> "Schema", definitions |-> definitions]

(***************************************************************************)
(* The Parser as a state machine: construction over a Lexer, then parse(), *)
(* one iteration of the top-level loop of parse_schema at a time.          *)
(***************************************************************************)
\* the source text of the lexical pieces the inputs are put together from
PieceText ==
    [A |-> <<"A", " ">>,
     B |-> <<"B", " ">>,
     struct |-> <<"s", "t", "r", "u", "c", "t", " ">>,
     variant |-> <<"v", "a", "r", "i", "a", "n", "t", " ">>,
     enum |-> <<"e", "n", "u", "m", " ">>,
     array |-> <<"a", "r", "r", "a", "y">>,
     map |-> <<"m", "a", "p">>,
     optional |-> <<"o", "p", "t", "i", "o", "n", "a", "l">>,
     ref |-> <<"r", "e", "f">>,
     entity |-> <<"e", "n", "t", "i", "t", "y">>,
     Entity |-> <<"E", "n", "t", "i", "t", "y">>,
     u8 |-> <<"u", "8", " ">>,
     unit |-> <<"u", "n", "i", "t", " ">>,
     colon |-> <<":">>,
     comma |-> <<",">>,
     lbrace |-> <<"{">>,
     rbrace |-> <<"}">>,
     langle |-> <<"<">>,
     rangle |-> <<">">>,
     newline |-> <<"\n">>,
     comment |-> <<"/", "/", "c", "\n">>,
     bad |-> <<"@">>,
     number |-> <<"0", " ">>]
CorePieces == {"A", "colon", "comma", "lbrace", "rbrace", "langle", "rangle",
               "struct", "enum", "array", "u8", "bad"}

RECURSIVE Render(_)
Render(pieces) ==
    IF pieces = << >> THEN << >> ELSE PieceText[Head(pieces)] \o Render(Tail(pieces))

\* well-formed definitions, one per form of the grammar
WellFormed ==
    { <<"A", "colon", "struct", "lbrace", "A", "colon", "u8", "comma", "B", "colon", "A", "rbrace">>,
      <<"A", "colon", "variant", "lbrace", "A", "comma", "B", "colon", "unit", "rbrace">>,
      <<"A", "colon", "enum", "lbrace", "A", "comma", "B", "rbrace">>,
      <<"A", "colon", "map", "langle", "u8", "comma", "array", "langle", "B", "rangle", "rangle">>,
      <<"A", "colon", "optional", "langle", "ref", "langle", "entity", "rangle", "rangle">>,
      <<"A", "colon", "u8", "newline", "B", "colon", "A">>,
      <<"A", "colon", "struct", "lbrace", "A", "colon", "variant", "lbrace", "B", "colon",
        "enum", "lbrace", "A", "rbrace", "rbrace", "rbrace">> }
\* a piece sequence as it is, or with one piece removed, replaced or inserted
Edits(w) ==
    {w} \cup {SubSeq(w, 1, i - 1) \o SubSeq(w, i + 1, Len(w)) : i \in 1..Len(w)}
        \cup {[w EXCEPT ![i] = p] : i \in 1..Len(w), p \in DOMAIN PieceText}
        \cup {SubSeq(w, 1, i - 1) \o <<p>> \o SubSeq(w, i, Len(w)) :
                  i \in 1..(Len(w) + 1), p \in DOMAIN PieceText}

\* the sources: every sequence of up to MaxPieces core pieces, and every
\* well-formed definition with at most one edit
InitParser ==
    /\ \/ \E n \in 0..MaxPieces : \E w \in [1..n -> CorePieces] : source_ = Render(w)
       \/ \E d \in WellFormed : \E w \in Edits(d) : source_ = Render(w)
    /\ position_ = 0
    /\ line_ = 1
    /\ column_ = 1
    /\ lexer_errors_ = << >>
    /\ peeked_token_ = NoToken
    /\ returned_token = NoToken
    /\ current_token_ = NoToken
    /\ parser_errors_ = << >>
    /\ schema = << >>
    /\ parse_pc = "unconstructed"
    /\ parse_result = Null
    /\ CheckerIdle
    /\ DriverIdle
    /\ RerunIdle

\* Parser::has_errors
parser_has_errors == parser_errors_ /= << >>

\* the Parser object of the moment
parser_ == ParserObject(lexer_, current_token_, parser_errors_)

\* the Parser fields, and the Lexer it reads from, after a call
ParserBecomes(ps) ==
    /\ current_token_' = ps.current_token_
    /\ parser_errors_' = ps.errors_
    /\ LexerBecomes(ps.lx)
    /\ returned_token' = IF ps.lx = lexer_ /\ parse_pc /= "unconstructed"
                         THEN returned_token ELSE ps.current_token_

\* the Parser and the SchemaNode after an iteration of the top-level loop
IterationBecomes(r) ==
    /\ ParserBecomes(r.ps)
    /\ schema' = r.node
    /\ parse_pc' = IF r.ps.stalled THEN "diverged" ELSE "loop"

\* Parser::Parser: current_token_ starts as an END_OF_FILE placeholder, then advance()
ParserConstruct ==
    /\ parse_pc = "unconstructed"
    /\ ParserBecomes(Parser_advance(ParserObject(lexer_, Token("END_OF_FILE", "", 0, 0), << >>)))
    /\ parse_pc' = "constructed"
    /\ UNCHANGED <<schema, parse_result>>
    /\ UNCHANGED <<checkerVars, driverVars, rerunVars>>

\* parse() -> parse_schema(): the empty SchemaNode and the first skip_newlines()
ParseSchemaBegin ==
    /\ parse_pc = "constructed"
    /\ ParserBecomes(skip_newlines(parser_))
    /\ schema' = << >>
    /\ parse_pc' = "loop"
    /\ UNCHANGED parse_result
    /\ UNCHANGED <<checkerVars, driverVars, rerunVars>>

\* one iteration of while (!check(END_OF_FILE)); a body loop that cannot end
\* keeps parse() from ever returning
ParseSchemaIteration ==
    /\ parse_pc = "loop"
    /\ ~Parser_check(parser_, "END_OF_FILE")
    /\ IterationBecomes(parse_schema_iteration(parser_, schema))
    /\ UNCHANGED parse_result
    /\ UNCHANGED <<checkerVars, driverVars, rerunVars>>

\* the loop ends; parse_schema() returns the SchemaNode
ParseSchemaReturn ==
    /\ parse_pc = "loop"
    /\ Parser_check(parser_, "END_OF_FILE")
    /\ parse_result' = SchemaNode(schema)
    /\ parse_pc' = "returned"
    /\ UNCHANGED <<current_token_, parser_errors_, schema>>
    /\ UNCHANGED lexerVars
    /\ UNCHANGED <<checkerVars, driverVars, rerunVars>>

NextParser == ParserConstruct \/ ParseSchemaBegin \/ ParseSchemaIteration \/ ParseSchemaReturn

SpecParser == InitParser /\ [][NextParser]_vars

\* ---- C2: parse() terminates and returns a Schema.  No body loop (struct,
\* variant, enum) goes round without having consumed a token; every iteration of
\* the top-level loop consumes at least one token; when a top-level definition
\* fails, the synchronize() that follows consumes at least one token unless the
\* input is exhausted; the Lexer never runs past the end of the input, so only
\* finitely many iterations exist; and what parse() returns is a Schema, not null.
InTopLevelLoop == parse_pc = "loop" /\ ~Parser_check(parser_, "END_OF_FILE")
TopLevelIterationConsumes ==
    InTopLevelLoop => Consumed(parser_, parse_schema_iteration(parser_, schema).ps)
SynchronizeConsumesAfter(def) ==
    def.node = Null =>
        \/ Consumed(def.ps, synchronize(def.ps))
        \/ Parser_check(def.ps, "END_OF_FILE")
SynchronizeConsumes == InTopLevelLoop => SynchronizeConsumesAfter(parse_type_definition(parser_))
C2_ParserTotal ==
    /\ parse_pc /= "diverged"
    /\ TopLevelIterationConsumes
    /\ SynchronizeConsumes
    /\ position_ <= Len(source_)
    /\ parse_pc = "returned" => parse_result /= Null /\ parse_result.k = "Schema"
\* parse() has returned after a failed definition, a recovery and a definition
\* parsed out of a struct body
C2_Witness ==
    /\ parse_pc = "returned"
    /\ Len(parser_errors_) >= 2
    /\ \E i \in 1..Len(schema) : schema[i].type.k = "Struct" /\ schema[i].type.fields /= << >>

(***************************************************************************)
(* What the claims about parse() speak of: the tokens of the source as the *)
(* Lexer hands them out, and the token sequence the grammar writes for a   *)
(* tree.                                                                   *)
(***************************************************************************)
\* a token as the grammar sees it: its kind, and its lexeme when it is a name
Word(type, lexeme) == IF type = "IDENTIFIER" THEN <<type, lexeme>> ELSE <<type>>

\* the tokens scan_token() hands out from scanner position ls to the end of the input
RECURSIVE TokensFrom(_)
TokensAfter(r) ==
    IF r.token.type = "END_OF_FILE" THEN << >> ELSE <<r.token>> \o TokensFrom(r.ls)
TokensFrom(ls) == TokensAfter(scan_token(ls))
SourceTokens == TokensFrom([position |-> 0, line |-> 1, column |-> 1])

\* the tokens that are neither comments nor newlines, as words
RECURSIVE SignificantWords(_)
SignificantWords(tokens) ==
    IF tokens = << >> THEN << >>
    ELSE IF Head(tokens).type \in {"COMMENT", "WHITESPACE", "NEWLINE"}
         THEN SignificantWords(Tail(tokens))
         ELSE <<Word(Head(tokens).type, Head(tokens).lexeme)>> \o SignificantWords(Tail(tokens))

\* a word sequence without the commas that stand right before a '}'
RECURSIVE WithoutTrailingCommas(_)
WithoutTrailingCommas(words) ==
    IF words = << >> THEN << >>
    ELSE IF Len(words) >= 2 /\ words[1] = <<"COMMA">> /\ words[2] = <<"RBRACE">>
         THEN WithoutTrailingCommas(Tail(words))
         ELSE <<Head(words)>> \o WithoutTrailingCommas(Tail(words))

\* the words the grammar writes for a type expression; a null node has no spelling
RECURSIVE GrammarWords(_)
RECURSIVE GrammarMembers(_, _)
GrammarMember(kind, m) ==
    IF kind = "Enum" THEN <<Word("IDENTIFIER", m)>>
    ELSE IF kind = "Variant" /\ m.type = Null THEN <<Word("IDENTIFIER", m.name)>>
    ELSE <<Word("IDENTIFIER", m.name), <<"COLON">>>> \o GrammarWords(m.type)
GrammarMembers(kind, ms) ==
    IF ms = << >> THEN << >>
    ELSE IF Len(ms) = 1 THEN GrammarMember(kind, ms[1])
    ELSE GrammarMember(kind, ms[1]) \o <<<<"COMMA">>>> \o GrammarMembers(kind, Tail(ms))
GrammarWords(e) ==
    CASE e.k = "null" -> <<<<"no spelling">>>>
      [] e.k = "Primitive" -> <<<<e.type>>>>
      [] e.k = "Ref" -> <<<<"REF">>, <<"LANGLE">>, <<"ENTITY">>, <<"RANGLE">>>>
      [] e.k = "Identifier" -> <<Word("IDENTIFIER", e.name)>>
      [] e.k = "Struct" ->
             <<<<"STRUCT">>, <<"LBRACE">>>> \o GrammarMembers("Struct", e.fields) \o <<<<"RBRACE">>>>
      [] e.k = "Variant" ->
             <<<<"VARIANT">>, <<"LBRACE">>>> \o GrammarMembers("Variant", e.alternatives)
                 \o <<<<"RBRACE">>>>
      [] e.k = "Enum" ->
             <<<<"ENUM">>, <<"LBRACE">>>> \o GrammarMembers("Enum", e.values) \o <<<<"RBRACE">>>>
      [] e.k = "Container" /\ e.kind = "MAP" ->
             <<<<"MAP">>, <<"LANGLE">>>> \o GrammarWords(e.key_type) \o <<<<"COMMA">>>>
                 \o GrammarWords(e.value_type) \o <<<<"RANGLE">>>>
      [] e.k = "Container" /\ e.kind /= "MAP" ->
             <<<<e.kind>>, <<"LANGLE">>>> \o GrammarWords(e.element_type) \o <<<<"RANGLE">>>>
RECURSIVE GrammarWordsOfSchema(_)
GrammarWordsOfSchema(definitions) ==
    IF definitions = << >> THEN << >>
    ELSE <<Word("IDENTIFIER", Head(definitions).name), <<"COLON">>>>
             \o GrammarWords(Head(definitions).type) \o GrammarWordsOfSchema(Tail(definitions))

\* every node of a parsed type expression, at any depth (a null node included)
RECURSIVE ParsedNodes(_)
ParsedNodesOfMembers(ms) == UNION {ParsedNodes(ms[i].type) : i \in 1..Len(ms)}
ParsedNodes(e) ==
    {e} \cup
    CASE e.k = "Struct" -> ParsedNodesOfMembers(e.fields)
      [] e.k = "Variant" ->
             UNION {ParsedNodes(e.alternatives[i].type) :
                        i \in {j \in 1..Len(e.alternatives) : e.alternatives[j].type /= Null}}
      [] e.k = "Container" /\ e.kind = "MAP" -> ParsedNodes(e.key_type) \cup ParsedNodes(e.value_type)
      [] e.k = "Container" /\ e.kind /= "MAP" -> ParsedNodes(e.element_type)
      [] OTHER -> {}
ParsedSchemaNodes(definitions) == UNION {ParsedNodes(definitions[i].type) : i \in 1..Len(definitions)}

ParseReturnedClean == parse_pc = "returned" /\ parser_errors_ = << >>

\* ---- C12: when parse() returns with errors() empty, the tree satisfies the
\* grammar: no TypeDefinition, Field or container parameter is null, and the
\* significant tokens of the source are exactly the spelling the grammar gives
\* the tree (members separated by commas, every Ref spelled ref<entity>), up
\* to commas right before a closing brace.
C12_CleanParseSatisfiesGrammar ==
    ParseReturnedClean =>
        /\ Null \notin ParsedSchemaNodes(parse_result.definitions)
        /\ WithoutTrailingCommas(SignificantWords(SourceTokens))
               = GrammarWordsOfSchema(parse_result.definitions)
\* a clean parse of a struct whose two fields a comma separates
C12_Witness ==
    /\ ParseReturnedClean
    /\ \E i \in 1..Len(parse_result.definitions) :
           /\ parse_result.definitions[i].type.k = "Struct"
           /\ Len(parse_result.definitions[i].type.fields) = 2

\* the words hold 'ref' '<' followed by something that is not the keyword entity
HasRefOfOtherThanEntity(words) ==
    \E i \in 1..(Len(words) - 1) :
        /\ words[i] = <<"REF">>
        /\ words[i + 1] = <<"LANGLE">>
        /\ (i + 2 > Len(words) \/ words[i + 2] /= <<"ENTITY">>)
HasMessage(message) == \E i \in 1..Len(parser_errors_) : parser_errors_[i].message = message

BodiesAndFieldsPresent(definitions) ==
    \A i \in DOMAIN definitions :
        /\ definitions[i].type /= Null
        /\ \A e \in ParsedNodes(definitions[i].type) :
               e.k = "Struct" => \A f \in DOMAIN e.fields : e.fields[f].type /= Null
HoldsNullParameter(definitions) ==
    \E n \in ParsedSchemaNodes(definitions) :
        n.k = "Container" /\ Null \in (IF n.kind = "MAP" THEN {n.key_type, n.value_type}
                                        ELSE {n.element_type})

\* ---- C27: in every Schema parse() returns, also when diagnostics were
\* reported, every TypeDefinition has a non-null body and every Field of every
\* Struct has a non-null type: a definition or field whose type expression
\* fails to parse is dropped, not stored (parse_type_definition and parse_field
\* return null then, with a diagnostic reported), so a parse error leaves null
\* only container parameters and variant-alternative payloads.  It holds of
\* the SchemaNode under construction after every iteration as well.
C27_BodiesAndFieldTypesNeverNull ==
    /\ BodiesAndFieldsPresent(schema)
    /\ parse_pc = "returned" =>
           /\ parse_result.definitions = schema
           /\ BodiesAndFieldsPresent(parse_result.definitions)
    /\ parse_pc = "loop" =>
           /\ parse_type_definition(parser_).node /= Null
                  => parse_type_definition(parser_).node.type /= Null
           /\ parse_type_definition(parser_).node = Null
                  => Len(parse_type_definition(parser_).ps.errors_) > Len(parser_errors_)
\* parse() returned with diagnostics a Schema with a struct whose fields all
\* have their types, and a container holding a null parameter
C27_Witness ==
    /\ parse_pc = "returned"
    /\ parser_errors_ /= << >>
    /\ HoldsNullParameter(parse_result.definitions)
    /\ \E n \in ParsedSchemaNodes(parse_result.definitions) : n.k = "Struct" /\ n.fields /= << >>

(***************************************************************************)
(* One token sequence parsed in two spellings: a second Lexer and Parser   *)
(* are built over another spelling of the same pieces once the first       *)
(* parse() has returned (as the tests do, one compile_schema after the     *)
(* other), and what the first run returned is kept in first_parse.         *)
(***************************************************************************)
\* the pieces that are whitespace or comments
ExtraText ==
    [space |-> <<" ">>,
     tab |-> <<"\t">>,
     cr |-> <<"\r">>,
     block |-> <<"/", "*", "c", "*", "/">>]
Trivia == {"space", "tab", "cr", "block", "newline", "comment"}
Text(p) == IF p \in DOMAIN ExtraText THEN ExtraText[p] ELSE PieceText[p]
\* the pieces that begin with a letter or a digit, and those of them written with a space behind
StartsWord == {"A", "B", "struct", "variant", "enum", "u8", "unit", "number",
               "array", "map", "optional", "ref", "entity", "Entity"}
HasSpace == {"A", "B", "struct", "variant", "enum", "u8", "unit", "number"}

RECURSIVE Spell(_)
Spell(w) == IF w = << >> THEN << >> ELSE Text(Head(w)) \o Spell(Tail(w))
\* the spelling without any space that is not needed to keep two words apart
RECURSIVE SpellTight(_)
SpellTight(w) ==
    IF w = << >> THEN << >>
    ELSE (IF Head(w) \in HasSpace /\ (Len(w) = 1 \/ w[2] \notin StartsWord)
          THEN SubSeq(Text(Head(w)), 1, Len(Text(Head(w))) - 1)
          ELSE Text(Head(w))) \o SpellTight(Tail(w))

RECURSIVE WithoutTrivia(_)
WithoutTrivia(w) ==
    IF w = << >> THEN << >>
    ELSE IF Head(w) \in Trivia THEN WithoutTrivia(Tail(w))
    ELSE <<Head(w)>> \o WithoutTrivia(Tail(w))
InsertAt(w, i, p) == SubSeq(w, 1, i) \o <<p>> \o SubSeq(w, i + 1, Len(w))
RECURSIVE Interleaved(_, _)
Interleaved(w, p) == IF w = << >> THEN <<p>> ELSE <<p, Head(w)>> \o Interleaved(Tail(w), p)

\* every piece is a token of its own: no two words stand together without a space
PiecesAreTokens(w) ==
    \A i \in 1..(Len(w) - 1) : ~(w[i] \in StartsWord \ HasSpace /\ w[i + 1] \in StartsWord)

\* the other spellings of a piece sequence: tight, without its whitespace and
\* comments, with one piece of whitespace or comment put in at one place, or at every place
Layouts(w) ==
    {SpellTight(w), Spell(WithoutTrivia(w))}
        \cup {Spell(InsertAt(w, i, t)) : i \in 0..Len(w), t \in Trivia}
        \cup {Spell(Interleaved(w, t)) : t \in Trivia}

\* the sources: the well-formed definitions, as they are, with one piece
\* removed, or with one piece replaced by an unknown character
LayoutBases(d) ==
    {w \in {d} \cup {SubSeq(d, 1, i - 1) \o SubSeq(d, i + 1, Len(d)) : i \in 1..Len(d)}
               \cup {[d EXCEPT ![i] = "bad"] : i \in 1..Len(d)} :
         PiecesAreTokens(WithoutTrivia(w))}

\* Lexer lexer(source); over a fresh source
LexerConstruct(src) ==
    /\ source_' = src
    /\ position_' = 0
    /\ line_' = 1
    /\ column_' = 1
    /\ lexer_errors_' = << >>
    /\ peeked_token_' = NoToken
    /\ returned_token' = NoToken

\* a Parser not yet constructed over its Lexer
ParserUnconstructed ==
    /\ current_token_ = NoToken
    /\ parser_errors_ = << >>
    /\ schema = << >>
    /\ parse_pc = "unconstructed"
    /\ parse_result = Null

InitLayout ==
    /\ \E d \in WellFormed : \E w \in LayoutBases(d) :
           /\ source_pieces = w
           /\ source_ = Spell(w)
    /\ position_ = 0
    /\ line_ = 1
    /\ column_ = 1
    /\ lexer_errors_ = << >>
    /\ peeked_token_ = NoToken
    /\ returned_token = NoToken
    /\ ParserUnconstructed
    /\ first_parse = NoParse
    /\ first_check = NoCheck
    /\ CheckerIdle
    /\ DriverIdle

\* what parse() returned and what it reported
ParseOutcome == [tree |-> parse_result,
                 messages |-> [i \in 1..Len(parser_errors_) |-> parser_errors_[i].message]]

\* the first parse() has returned: a Lexer and a Parser over the source src
ParseAgain(src) ==
    /\ parse_pc = "returned"
    /\ first_parse = NoParse
    /\ first_parse' = ParseOutcome
    /\ LexerConstruct(src)
    /\ current_token_' = NoToken
    /\ parser_errors_' = << >>
    /\ schema' = << >>
    /\ parse_pc' = "unconstructed"
    /\ parse_result' = Null
    /\ UNCHANGED <<source_pieces, first_check>>
    /\ UNCHANGED <<checkerVars, driverVars>>

ParseAgainLaidOut == \E src \in Layouts(source_pieces) : ParseAgain(src)

NextLayout == NextParser \/ ParseAgainLaidOut

SpecLayout == InitLayout /\ [][NextLayout]_vars

BothParsesReturned == parse_pc = "returned" /\ first_parse /= NoParse

\* ---- C13: spaces, tabs, carriage returns, newlines and comments put in or
\* taken out between tokens change neither the tree parse() returns nor
\* whether diagnostics are reported (nor which messages, in which order); the
\* Parser's current token is never a COMMENT, WHITESPACE or NEWLINE token.
C13_LayoutInsensitive ==
    /\ parse_pc \notin {"idle", "unconstructed"} =>
           current_token_.type \notin {"COMMENT", "WHITESPACE", "NEWLINE"}
    /\ BothParsesReturned =>
           /\ parse_result = first_parse.tree
           /\ (parser_errors_ = << >>) <=> (first_parse.messages = << >>)
           /\ ParseOutcome.messages = first_parse.messages
\* a source whose first definition fails and whose second one is parsed has
\* been parsed in two spellings, the second with newlines the first has not
C13_Witness ==
    /\ BothParsesReturned
    /\ first_parse.messages /= << >>
    /\ Len(parse_result.definitions) >= 1
    /\ line_ > Len(source_pieces)

(***************************************************************************)
(* The second spelling has one more comma: right before a '}' that follows *)
(* a member (the body is not empty and has no trailing comma yet).         *)
(***************************************************************************)
TrailingCommaPlaces(w) ==
    {i \in 2..Len(w) : w[i] = "rbrace" /\ w[i - 1] \notin {"lbrace", "comma"} \cup Trivia}

ParseAgainWithTrailingComma ==
    \E i \in TrailingCommaPlaces(source_pieces) :
        ParseAgain(Spell(InsertAt(source_pieces, i - 1, "comma")))

NextTrailingComma == NextParser \/ ParseAgainWithTrailingComma

SpecTrailingComma == InitLayout /\ [][NextTrailingComma]_vars

\* ---- C14: one trailing comma added right before the closing '}' of a
\* non-empty struct, variant or enum body leaves the tree parse() returns as
\* it was and adds no diagnostic.
C14_TrailingCommaEquivalence ==
    BothParsesReturned =>
        /\ parse_result = first_parse.tree
        /\ Len(parser_errors_) <= Len(first_parse.messages)
\* a definition with a body of two members was parsed clean, and again with a trailing comma
C14_Witness ==
    /\ BothParsesReturned
    /\ first_parse.messages = << >>
    /\ Len(source_) = Len(Spell(source_pieces)) + 1
    /\ \E i \in 1..Len(parse_result.definitions) :
           /\ parse_result.definitions[i].type.k \in {"Struct", "Variant", "Enum"}
           /\ Len(GrammarWords(parse_result.definitions[i].type)) >= 6

(***************************************************************************)
(* Recovery across lines: sources of two lines, each a short sequence of   *)
(* pieces, so that a definition can fail on the first line with any token  *)
(* at the start of the second.                                             *)
(***************************************************************************)
MaxLine == 3      \* pieces on a line of a two-line source
LinePieces == {"A", "colon", "u8", "bad"}
Lines == UNION {[1..n -> LinePieces] : n \in 0..MaxLine}

InitRecovery ==
    /\ \E first \in Lines : \E second \in Lines :
           /\ source_pieces = first \o <<"newline">> \o second
           /\ source_ = Spell(first \o <<"newline">> \o second)
    /\ position_ = 0
    /\ line_ = 1
    /\ column_ = 1
    /\ lexer_errors_ = << >>
    /\ peeked_token_ = NoToken
    /\ returned_token = NoToken
    /\ ParserUnconstructed
    /\ first_parse = NoParse
    /\ first_check = NoCheck
    /\ CheckerIdle
    /\ DriverIdle

SpecRecovery == InitRecovery /\ [][NextParser]_vars

\* the tokens the Lexer handed out while the Parser went from state before to state after
TokensBetween(before, after) ==
    SubSeq(TokensFrom(before.lx.ls), 1,
           Len(TokensFrom(before.lx.ls)) - Len(TokensFrom(after.lx.ls)))
\* the tokens synchronize() consumed after the one it first advanced past: all
\* it was handed but the one it stopped at (at END_OF_FILE it stopped at none)
SkippedBy(handed, after) ==
    IF after.current_token_.type = "END_OF_FILE" \/ handed = << >> THEN handed
    ELSE SubSeq(handed, 1, Len(handed) - 1)
\* a token other than a comment or a newline stands behind a NEWLINE in the sequence
SkipsPastALine(skipped) ==
    \E i, j \in 1..Len(skipped) :
        /\ i < j
        /\ skipped[i].type = "NEWLINE"
        /\ skipped[j].type \notin {"COMMENT", "WHITESPACE", "NEWLINE"}
StaysOnTheLine(before, after) ==
    ~SkipsPastALine(SkippedBy(TokensBetween(before, after), after))
RecoveryStaysOnTheLine(def) == def.node = Null => StaysOnTheLine(def.ps, synchronize(def.ps))

\* ---- C15: after a top-level definition failed, synchronize() consumes
\* tokens only up to the next NEWLINE or IDENTIFIER, whichever comes first:
\* recovery resumes at the start of the next line or at the next identifier,
\* and no token of a later line is skipped.
C15_RecoveryStopsAtLineOrIdentifier ==
    InTopLevelLoop => RecoveryStaysOnTheLine(parse_type_definition(parser_))

\* what synchronize() does: it stops at an IDENTIFIER or at END_OF_FILE only
RecoveryStopsAtIdentifier(def) ==
    def.node = Null => synchronize(def.ps).current_token_.type \in {"IDENTIFIER", "END_OF_FILE"}
SynchronizeStopsAtIdentifierOnly ==
    InTopLevelLoop => RecoveryStopsAtIdentifier(parse_type_definition(parser_))

(***************************************************************************)
(* TypeChecker (src/src/semantic/type_checker.cpp).                        *)
(* A diagnostic is its kind, the offending name and the context breadcrumb *)
(* (the components the code joins with "." into the context string).       *)
(***************************************************************************)
Diag(kind, name, ctx) == [kind |-> kind, name |-> name, ctx |-> ctx]

has_errors == errors_ /= <<>>

\* build_symbol_table: the tables and the diagnostics after the first i definitions.
RECURSIVE build_symbol_table_from(_, _)
build_symbol_table_from(i, acc) ==
    IF i > Len(schema_) THEN acc
    ELSE LET def == schema_[i] IN
         IF def.name \in DOMAIN acc.symbol_table
         THEN build_symbol_table_from(i + 1,
                 [acc EXCEPT !.errors = Append(@, Diag("DuplicateType", def.name, <<>>))])
         ELSE build_symbol_table_from(i + 1,
                 [acc EXCEPT !.symbol_table = @ @@ (def.name :> i),
                             \* definition_order_[name] = index overwrites an entry
                             \* a previous run left behind
                             !.definition_order = (def.name :> (i - 1)) @@ @])

\* a build_symbol_table over the table the previous run filled (check()
\* without its symbol_table_.clear())
build_symbol_table_uncleared ==
    build_symbol_table_from(1, [symbol_table |-> symbol_table_,
                                definition_order |-> definition_order_,
                                errors |-> << >>])
build_symbol_table ==
    build_symbol_table_from(1, [symbol_table |-> << >>,
                                definition_order |-> definition_order_,
                                errors |-> << >>])

\* Mutant: the table as it would stand if names were entered while the bodies
\* are validated, one definition at a time.
is_type_defined_so_far(type_name) ==
    /\ type_name \in DOMAIN symbol_table_
    /\ symbol_table_[type_name] <= current_definition_index_ + 1

is_type_defined(type_name) == type_name \in DOMAIN symbol_table_

RECURSIVE check_type_expr(_, _)

\* the loop of check_struct_type over node->fields, from field i on
RECURSIVE check_struct_fields(_, _, _, _)
check_struct_fields(node, i, field_names, context) ==
    IF i > Len(node.fields) THEN << >>
    ELSE LET field == node.fields[i] IN
         (IF field.name \in field_names
            THEN <<Diag("DuplicateField", field.name, context)>> ELSE << >>)
         \o check_type_expr(field.type, context \o <<field.name>>)
         \o check_struct_fields(node, i + 1, field_names \cup {field.name}, context)

check_struct_type(node, context) ==
    (IF node.fields = << >> THEN <<Diag("EmptyStruct", "", context)>> ELSE << >>)
    \o check_struct_fields(node, 1, {}, context)

\* the loop of check_variant_type over node->alternatives, from alternative i on
RECURSIVE check_variant_alternatives(_, _, _, _)
check_variant_alternatives(node, i, alt_names, context) ==
    IF i > Len(node.alternatives) THEN << >>
    ELSE LET alt == node.alternatives[i] IN
         (IF alt.name \in alt_names
            THEN <<Diag("DuplicateAlternative", alt.name, context)>> ELSE << >>)
         \o (IF alt.type /= Null
               THEN check_type_expr(alt.type, context \o <<alt.name>>) ELSE << >>)
         \o check_variant_alternatives(node, i + 1, alt_names \cup {alt.name}, context)

\* Mutant: the alternatives' own types are not validated.
RECURSIVE check_variant_names_only(_, _, _, _)
check_variant_names_only(node, i, alt_names, context) ==
    IF i > Len(node.alternatives) THEN << >>
    ELSE (IF node.alternatives[i].name \in alt_names
            THEN <<Diag("DuplicateAlternative", node.alternatives[i].name, context)>>
            ELSE << >>)
         \o check_variant_names_only(node, i + 1,
                                     alt_names \cup {node.alternatives[i].name}, context)
check_variant_type_flat(node, context) ==
    (IF node.alternatives = << >> THEN <<Diag("EmptyVariant", "", context)>> ELSE << >>)
    \o check_variant_names_only(node, 1, {}, context)

check_variant_type(node, context) ==
    (IF node.alternatives = << >> THEN <<Diag("EmptyVariant", "", context)>> ELSE << >>)
    \o check_variant_alternatives(node, 1, {}, context)

\* the loop of check_enum_type over node->values, from value i on
RECURSIVE check_enum_values(_, _, _, _)
check_enum_values(node, i, value_set, context) ==
    IF i > Len(node.values) THEN << >>
    ELSE (IF node.values[i] \in value_set
            THEN <<Diag("DuplicateEnumValue", node.values[i], context)>> ELSE << >>)
         \o check_enum_values(node, i + 1, value_set \cup {node.values[i]}, context)

check_enum_type(node, context) ==
    (IF node.values = << >> THEN <<Diag("EmptyEnum", "", context)>> ELSE << >>)
    \o check_enum_values(node, 1, {}, context)

\* Mutant: the optional<optional<T>> test is missing.
check_container_type_any_nesting(node, context) ==
    IF node.kind \in {"ARRAY", "OPTIONAL"}
    THEN IF node.element_type = Null
         THEN <<Diag("MissingElement", "", context)>>
         ELSE check_type_expr(node.element_type, context)
    ELSE IF node.key_type = Null \/ node.value_type = Null
         THEN <<Diag("MissingMapType", "", context)>>
         ELSE check_type_expr(node.key_type, context \o <<"(map key)">>)
              \o check_type_expr(node.value_type, context \o <<"(map value)">>)

check_container_type(node, context) ==
    IF node.kind \in {"ARRAY", "OPTIONAL"}
    THEN IF node.element_type = Null
         THEN <<Diag("MissingElement", "", context)>>
         ELSE check_type_expr(node.element_type, context)
              \o (IF /\ node.kind = "OPTIONAL"
                     /\ node.element_type.k = "Container"
                     /\ node.element_type.kind = "OPTIONAL"
                    THEN <<Diag("NestedOptional", "", context)>> ELSE << >>)
    ELSE \* MAP
         IF node.key_type = Null \/ node.value_type = Null
         THEN <<Diag("MissingMapType", "", context)>>
         ELSE check_type_expr(node.key_type, context \o <<"(map key)">>)
              \o check_type_expr(node.value_type, context \o <<"(map value)">>)

\* The diagnostics check_type_expr appends, in order.
check_type_expr(expr, context) ==
    CASE expr.k = "Struct" -> check_struct_type(expr, context)
      [] expr.k = "Variant" -> check_variant_type(expr, context)
      [] expr.k = "Enum" -> check_enum_type(expr, context)
      [] expr.k = "Container" -> check_container_type(expr, context)
      [] expr.k = "Identifier" ->
            IF ~is_type_defined(expr.name)
            THEN <<Diag("Undefined", expr.name, context)>>
            ELSE IF /\ expr.name \in DOMAIN definition_order_
                    /\ definition_order_[expr.name] > current_definition_index_
                 THEN <<Diag("ForwardReference", expr.name, context)>>
                 ELSE << >>
      [] OTHER -> << >>     \* primitive and ref types are always valid; so is nullptr

is_primitive_type(expr) == expr.k = "Primitive"

\* an is_leaf_type that does not count enums
is_leaf_type_without_enum(expr) == is_primitive_type(expr) \/ expr.k = "Ref"
is_leaf_type(expr) == is_primitive_type(expr) \/ expr.k = "Ref" \/ expr.k = "Enum"

(***************************************************************************)
(* check_leaf_nodes.  Every call is a frame on the call stack; depth is    *)
(* the number of frames in use.  The result is the diagnostics appended    *)
(* and how the walk ended: "none" (it returned), "stack_overflow" (the     *)
(* recursion ran out of stack: the process dies inside check()), or        *)
(* "null_deref" (report_error read line/column through a null node).       *)
(***************************************************************************)
LeafOk(errs) == [errors |-> errs, crash |-> "none"]
LeafCrash(how) == [errors |-> << >>, crash |-> how]
\* r, then (if r returned) the walk that follows it
LeafSeq(r, rest) ==
    IF r.crash /= "none" THEN r
    ELSE [errors |-> r.errors \o rest.errors, crash |-> rest.crash]

RECURSIVE check_leaf_nodes(_, _, _, _)

RECURSIVE check_leaf_fields(_, _, _, _)
check_leaf_fields(node, i, context, depth) ==
    IF i > Len(node.fields) THEN LeafOk(<< >>)
    ELSE LeafSeq(check_leaf_nodes(node.fields[i].type,
                                  context \o <<node.fields[i].name>>, TRUE, depth + 1),
                 check_leaf_fields(node, i + 1, context, depth))

RECURSIVE check_leaf_alternatives(_, _, _, _)
check_leaf_alternatives(node, i, context, depth) ==
    IF i > Len(node.alternatives) THEN LeafOk(<< >>)
    ELSE LeafSeq(IF node.alternatives[i].type /= Null
                 THEN check_leaf_nodes(node.alternatives[i].type,
                                       context \o <<node.alternatives[i].name>>, TRUE, depth + 1)
                 ELSE LeafOk(<< >>),
                 check_leaf_alternatives(node, i + 1, context, depth))

check_leaf_container(node, context, must_terminate, depth) ==
    LeafSeq(IF node.element_type /= Null
            THEN check_leaf_nodes(node.element_type, context, must_terminate, depth + 1)
            ELSE LeafOk(<< >>),
    LeafSeq(IF node.key_type /= Null
            THEN check_leaf_nodes(node.key_type, context \o <<"(key)">>, must_terminate, depth + 1)
            ELSE LeafOk(<< >>),
            IF node.value_type /= Null
            THEN check_leaf_nodes(node.value_type, context \o <<"(value)">>, must_terminate, depth + 1)
            ELSE LeafOk(<< >>)))

check_leaf_nodes(expr, context, must_terminate, depth) ==
    IF depth > MaxStack THEN LeafCrash("stack_overflow")
    ELSE CASE expr.k = "Struct" -> check_leaf_fields(expr, 1, context, depth)
           [] expr.k = "Variant" -> check_leaf_alternatives(expr, 1, context, depth)
           [] expr.k = "Container" -> check_leaf_container(expr, context, must_terminate, depth)
           [] expr.k = "Identifier" ->
                 \* follow the reference, with no record of the definitions already entered
                 IF expr.name \in DOMAIN symbol_table_
                 THEN check_leaf_nodes(schema_[symbol_table_[expr.name]].type,
                                       <<expr.name>>, must_terminate, depth + 1)
                 ELSE LeafOk(<< >>)
           [] OTHER ->
                 IF must_terminate /\ ~is_leaf_type(expr)
                 THEN IF expr = Null THEN LeafCrash("null_deref")
                      ELSE LeafOk(<<Diag("NonTerminating", "", context)>>)
                 ELSE LeafOk(<< >>)

(***************************************************************************)
(* Cycle detection.  st is the pair of sets visiting_ / visited_, with the  *)
(* values the pair has gone through since has_circular_dependency was      *)
(* entered (steps: one entry per clear, insert and erase); the result      *)
(* carries them as the call leaves them, with its return value.            *)
(***************************************************************************)
CycleResult(b, st) ==
    [has_cycle |-> b, visiting |-> st.visiting, visited |-> st.visited, steps |-> st.steps]
CycleState(r) == [visiting |-> r.visiting, visited |-> r.visited, steps |-> r.steps]
\* the sets after a clear(), insert() or erase(), entered in the steps
SetsBecome(st, visiting, visited) ==
    [visiting |-> visiting, visited |-> visited,
     steps |-> Append(st.steps, [visiting |-> visiting, visited |-> visited])]
visiting_insert(st, name) == SetsBecome(st, st.visiting \cup {name}, st.visited)
visiting_erase(st, name) == SetsBecome(st, st.visiting \ {name}, st.visited)
visited_insert(st, name) == SetsBecome(st, st.visiting, st.visited \cup {name})

RECURSIVE check_circular_in_type_expr(_, _, _)

\* a loop over the fields that returns what the first field gave
check_circular_first_field_only(node, i, current_type, st) ==
    IF i > Len(node.fields) THEN CycleResult(FALSE, st)
    ELSE check_circular_in_type_expr(node.fields[i].type, current_type, st)

\* for (auto& field : fields) if (check_circular_in_type_expr(...)) return true;
RECURSIVE check_circular_fields(_, _, _, _)
check_circular_fields(node, i, current_type, st) ==
    IF i > Len(node.fields) THEN CycleResult(FALSE, st)
    ELSE LET r == check_circular_in_type_expr(node.fields[i].type, current_type, st) IN
         IF r.has_cycle THEN r
         ELSE check_circular_fields(node, i + 1, current_type, CycleState(r))

RECURSIVE check_circular_alternatives(_, _, _, _)
check_circular_alternatives(node, i, current_type, st) ==
    IF i > Len(node.alternatives) THEN CycleResult(FALSE, st)
    ELSE IF node.alternatives[i].type = Null
         THEN check_circular_alternatives(node, i + 1, current_type, st)
         ELSE LET r == check_circular_in_type_expr(node.alternatives[i].type, current_type, st) IN
              IF r.has_cycle THEN r
              ELSE check_circular_alternatives(node, i + 1, current_type, CycleState(r))

\* one "if (p && check_circular_in_type_expr(p)) return true;" of the container branch
check_circular_param(p, current_type, st) ==
    IF p = Null THEN CycleResult(FALSE, st)
    ELSE check_circular_in_type_expr(p, current_type, st)

check_circular_container(node, current_type, st) ==
    LET r1 == check_circular_param(node.element_type, current_type, st) IN
    IF r1.has_cycle THEN r1
    ELSE LET r2 == check_circular_param(node.key_type, current_type, CycleState(r1)) IN
         IF r2.has_cycle THEN r2
         ELSE check_circular_param(node.value_type, current_type, CycleState(r2))

\* a followed name that is entered in visited_ before it is taken out of visiting_
check_circular_followed_visited_first(name, r) ==
    CycleResult(r.has_cycle, visiting_erase(visited_insert(CycleState(r), name), name))
\* visiting_.erase(name); visited_.insert(name); return has_cycle;
check_circular_followed(name, r) ==
    CycleResult(r.has_cycle, visited_insert(visiting_erase(CycleState(r), name), name))

\* Mutant: ref<entity> counts as an edge back to the type being checked.
check_circular_ref_is_edge(expr, current_type, st) ==
    CASE expr.k = "Struct" -> check_circular_fields(expr, 1, current_type, st)
      [] expr.k = "Variant" -> check_circular_alternatives(expr, 1, current_type, st)
      [] expr.k = "Container" -> check_circular_container(expr, current_type, st)
      [] expr.k = "Identifier" ->
            IF expr.name = current_type THEN CycleResult(TRUE, st)
            ELSE IF expr.name \in st.visiting THEN CycleResult(TRUE, st)
            ELSE IF expr.name \in st.visited THEN CycleResult(FALSE, st)
            ELSE IF expr.name \in DOMAIN symbol_table_
                 THEN check_circular_followed(
                          expr.name,
                          check_circular_in_type_expr(schema_[symbol_table_[expr.name]].type,
                                                      current_type,
                                                      visiting_insert(st, expr.name)))
                 ELSE CycleResult(FALSE, st)
      [] expr.k = "Ref" -> CycleResult(TRUE, st)
      [] OTHER -> CycleResult(FALSE, st)

check_circular_in_type_expr(expr, current_type, st) ==
    CASE expr.k = "Struct" -> check_circular_fields(expr, 1, current_type, st)
      [] expr.k = "Variant" -> check_circular_alternatives(expr, 1, current_type, st)
      [] expr.k = "Container" -> check_circular_container(expr, current_type, st)
      [] expr.k = "Identifier" ->
            IF expr.name = current_type THEN CycleResult(TRUE, st)
            ELSE IF expr.name \in st.visiting THEN CycleResult(TRUE, st)
            ELSE IF expr.name \in st.visited THEN CycleResult(FALSE, st)
            ELSE IF expr.name \in DOMAIN symbol_table_
                 THEN check_circular_followed(
                          expr.name,
                          check_circular_in_type_expr(schema_[symbol_table_[expr.name]].type,
                                                      current_type,
                                                      visiting_insert(st, expr.name)))
                 ELSE CycleResult(FALSE, st)
      [] expr.k = "Ref" -> CycleResult(FALSE, st)   \* ref<entity> breaks circular dependencies
      [] OTHER -> CycleResult(FALSE, st)

\* visiting_.clear(); visited_.clear();
CycleCleared ==
    [visiting |-> {}, visited |-> {}, steps |-> <<[visiting |-> {}, visited |-> {}]>>]

has_circular_dependency(type_name) ==
    IF type_name \notin DOMAIN symbol_table_
    THEN CycleResult(FALSE, CycleCleared)
    ELSE check_circular_followed(
             type_name,
             check_circular_in_type_expr(schema_[symbol_table_[type_name]].type, type_name,
                                         visiting_insert(CycleCleared, type_name)))

(***************************************************************************)
(* The schemas check() is run on.  Three families:                         *)
(*   SchemasGraph   up to MaxDefs definitions with distinct names, whose   *)
(*                  bodies refer to each other in every way (earlier,      *)
(*                  later, itself, undefined);                             *)
(*   SchemasTree    one definition A with a nested body (every kind of     *)
(*                  node inside every kind of node, members empty,         *)
(*                  duplicated, container parameters missing), alone, or   *)
(*                  with a definition B before or after it;                *)
(*   SchemasDup     definitions that may share a name.                     *)
(***************************************************************************)
DefNameList == <<"A", "B", "C", "D", "E", "F">>
UndefinedName == "U"
P == PrimitiveTypeNode("U32")

GraphNames == {DefNameList[i] : i \in 1..MaxDefs} \cup {UndefinedName}
GraphBodies ==
    {P, RefTypeNode, StructTypeNode(<<FieldNode("x", RefTypeNode)>>)}
    \cup {IdentifierTypeNode(m) : m \in GraphNames}
    \cup {StructTypeNode(<<FieldNode("x", IdentifierTypeNode(m))>>) : m \in GraphNames}
SchemasGraph(n) ==
    {[i \in 1..n |-> TypeDefinitionNode(DefNameList[i], b[i])] : b \in [1..n -> GraphBodies]}

Leaves ==
    {P, RefTypeNode, IdentifierTypeNode("A"), IdentifierTypeNode("B"),
     IdentifierTypeNode(UndefinedName),
     OptionalOf(P), OptionalOf(Null), ArrayOf(Null)}
    \cup {StructTypeNode(fs) : fs \in {<< >>, <<FieldNode("x", P)>>,
                                       <<FieldNode("x", P), FieldNode("x", P)>>,
                                       <<FieldNode("x", P), FieldNode("y", RefTypeNode)>>}}
    \cup {VariantTypeNode(as) : as \in {<< >>, <<AlternativeNode("x", Null)>>,
                                        <<AlternativeNode("x", Null), AlternativeNode("x", P)>>,
                                        <<AlternativeNode("x", P), AlternativeNode("y", Null)>>}}
    \cup {EnumTypeNode(vs) : vs \in {<< >>, <<"x">>, <<"x", "x">>, <<"x", "y">>}}
Wrap(t) ==
    {StructTypeNode(<<FieldNode("y", P), FieldNode("x", t)>>),
     VariantTypeNode(<<AlternativeNode("y", Null), AlternativeNode("x", t)>>),
     ArrayOf(t), OptionalOf(t), MapOf(P, t), MapOf(t, P), MapOf(t, Null)}
RECURSIVE Nested(_)
Nested(n) == IF n = 0 THEN Leaves
             ELSE Nested(n - 1) \cup UNION {Wrap(t) : t \in Nested(n - 1)}
SchemasTree(t) ==
    {<<TypeDefinitionNode("A", t)>>,
     <<TypeDefinitionNode("B", P), TypeDefinitionNode("A", t)>>,
     <<TypeDefinitionNode("A", t), TypeDefinitionNode("B", P)>>}

DupBodies ==
    {StructTypeNode(<<FieldNode("x", P), FieldNode("x", P)>>),
     StructTypeNode(<<FieldNode("y", P)>>),
     StructTypeNode(<<FieldNode("x", IdentifierTypeNode(UndefinedName))>>)}
SchemasDup(n) ==
    {[i \in 1..n |-> TypeDefinitionNode(nm[i], b[i])] :
         nm \in [1..n -> {"A", "B"}], b \in [1..n -> DupBodies]}

(***************************************************************************)
(* check() (type_checker.cpp 10-61), one action per stretch of it.         *)
(***************************************************************************)
InitChecker ==
    /\ \/ \E n \in 0..MaxDefs : schema_ \in SchemasGraph(n)
       \/ \E t \in Nested(MaxNest) : schema_ \in SchemasTree(t)
       \/ \E n \in 2..MaxDefs : schema_ \in SchemasDup(n)
    /\ errors_ = << >>
    /\ symbol_table_ = << >>
    /\ definition_order_ = << >>
    /\ current_definition_index_ = 0
    /\ visiting_ = {}
    /\ visited_ = {}
    /\ cycle_def = 1
    /\ check_pc = "new"
    /\ check_result = "none"
    /\ LexerIdle
    /\ ParserIdle
    /\ DriverIdle
    /\ RerunIdle

\* check(): the four clear()s, build_symbol_table(), and the early return
check_enter ==
    /\ LET t == build_symbol_table IN
       /\ errors_' = t.errors
       /\ symbol_table_' = t.symbol_table
       /\ definition_order_' = t.definition_order
       /\ IF t.errors /= << >>
          THEN /\ check_pc' = "returned"
               /\ check_result' = "false"
               /\ UNCHANGED current_definition_index_
          ELSE /\ check_pc' = IF Len(schema_) = 0 THEN "circular" ELSE "definitions"
               /\ check_result' = "none"
               /\ current_definition_index_' = 0
    /\ visiting_' = {}
    /\ visited_' = {}
    /\ cycle_def' = 1
    /\ UNCHANGED schema_

\* the first check() on a TypeChecker
CheckBegin ==
    /\ check_pc = "new"
    /\ check_enter
    /\ UNCHANGED <<lexerVars, parserVars, driverVars, rerunVars>>

\* one iteration of the first loop of check_type_definitions: check_type_definition(def)
CheckTypeDefinition ==
    /\ check_pc = "definitions"
    /\ current_definition_index_ < Len(schema_)
    /\ LET def == schema_[current_definition_index_ + 1]
           found == check_type_expr(def.type, <<def.name>>)
           walk == check_leaf_nodes(def.type, <<def.name>>, FALSE, 1)
       IN IF walk.crash /= "none"
          THEN /\ errors_' = errors_ \o found
               /\ check_pc' = walk.crash
               /\ UNCHANGED current_definition_index_
          ELSE /\ errors_' = errors_ \o found \o walk.errors
               /\ current_definition_index_' = current_definition_index_ + 1
               /\ check_pc' = IF current_definition_index_ + 1 = Len(schema_)
                              THEN "circular" ELSE "definitions"
    /\ UNCHANGED <<schema_, symbol_table_, definition_order_, visiting_, visited_,
                   cycle_def, check_result>>
    /\ UNCHANGED <<lexerVars, parserVars, driverVars, rerunVars>>

\* one iteration of the second loop of check_type_definitions
CheckCircular ==
    /\ check_pc = "circular"
    /\ cycle_def <= Len(schema_)
    /\ LET def == schema_[cycle_def]
           r == has_circular_dependency(def.name)
       IN /\ visiting_' = r.visiting
          /\ visited_' = r.visited
          /\ errors_' = IF r.has_cycle
                        THEN Append(errors_, Diag("Circular", def.name, << >>))
                        ELSE errors_
    /\ cycle_def' = cycle_def + 1
    /\ UNCHANGED <<schema_, symbol_table_, definition_order_, current_definition_index_,
                   check_pc, check_result>>
    /\ UNCHANGED <<lexerVars, parserVars, driverVars, rerunVars>>

\* return !has_errors();
CheckReturn ==
    /\ check_pc = "circular"
    /\ cycle_def > Len(schema_)
    /\ check_pc' = "returned"
    /\ check_result' = IF has_errors THEN "false" ELSE "true"
    /\ UNCHANGED <<schema_, errors_, symbol_table_, definition_order_,
                   current_definition_index_, visiting_, visited_, cycle_def>>
    /\ UNCHANGED <<lexerVars, parserVars, driverVars, rerunVars>>

NextChecker == CheckBegin \/ CheckTypeDefinition \/ CheckCircular \/ CheckReturn

SpecChecker == InitChecker /\ [][NextChecker]_vars

(***************************************************************************)
(* check() called again on the TypeChecker the first call left behind: its *)
(* tables, sets and errors_ are those of the first run, and what the first *)
(* run returned is kept in first_check.                                    *)
(***************************************************************************)
CheckOutcome == [result |-> check_result, errors |-> errors_, schema |-> schema_]

CheckAgain ==
    /\ check_pc = "returned"
    /\ first_check = NoCheck
    /\ first_check' = CheckOutcome
    /\ check_enter
    /\ UNCHANGED <<source_pieces, first_parse>>
    /\ UNCHANGED <<lexerVars, parserVars, driverVars>>

NextRecheck == NextChecker \/ CheckAgain

SpecRecheck == InitChecker /\ [][NextRecheck]_vars

BothChecksReturned == check_pc = "returned" /\ first_check /= NoCheck

\* ---- C22: check() never modifies the Schema, and a second check() on the
\* same TypeChecker returns the same boolean and the same errors() list as
\* the first: nothing the first run left behind (errors_, symbol_table_,
\* definition_order_, visiting_, visited_) changes the result of the next.
C22_CheckIsRepeatable ==
    /\ [][schema_' = schema_]_vars
    /\ [](BothChecksReturned => CheckOutcome = first_check)
\* the second check() went through both loops over tables the first run had
\* filled and returned false with several diagnostics
C22_Witness ==
    /\ BothChecksReturned
    /\ check_result = "false"
    /\ Len(errors_) >= 2
    /\ Len(schema_) >= 2
    /\ cycle_def > Len(schema_)
    /\ visited_ /= {}

(***************************************************************************)
(* The cycle search on its own: has_circular_dependency applied to every   *)
(* definition, in order, of a schema whose tables build_symbol_table has   *)
(* filled (the second loop of check_type_definitions), over schemas whose  *)
(* definitions refer to each other through struct fields, variant          *)
(* alternatives and container parameters, and hold ref<entity> and enum    *)
(* values named like types.                                                *)
(***************************************************************************)
MaxCycleDefs == 3     \* definitions in a schema handed to the cycle search
CycleNames(n) == {DefNameList[i] : i \in 1..n}
CycleBodies(n) ==
    {P, StructTypeNode(<<FieldNode("x", RefTypeNode), FieldNode("y", EnumTypeNode(<<"A", "B">>))>>)}
    \cup {IdentifierTypeNode(m) : m \in CycleNames(n) \cup {UndefinedName}}
    \cup {StructTypeNode(<<FieldNode("x", IdentifierTypeNode(DefNameList[ij[1]])),
                           FieldNode("y", IdentifierTypeNode(DefNameList[ij[2]]))>>) :
              ij \in {p \in (1..n) \X (1..n) : p[1] < p[2]}}
    \cup {VariantTypeNode(<<AlternativeNode("x", Null),
                            AlternativeNode("y", MapOf(P, ArrayOf(IdentifierTypeNode(m))))>>) :
              m \in CycleNames(n)}
SchemasCycle(n) ==
    {[i \in 1..n |-> TypeDefinitionNode(DefNameList[i], b[i])] : b \in [1..n -> CycleBodies(n)]}

InitCycles ==
    /\ \E n \in 1..MaxCycleDefs :
           /\ schema_ \in SchemasCycle(n)
           /\ symbol_table_ = [m \in CycleNames(n) |-> CHOOSE i \in 1..n : DefNameList[i] = m]
           /\ definition_order_ =
                  [m \in CycleNames(n) |-> (CHOOSE i \in 1..n : DefNameList[i] = m) - 1]
           /\ current_definition_index_ = n
    /\ errors_ = << >>
    /\ visiting_ = {}
    /\ visited_ = {}
    /\ cycle_def = 1
    /\ check_pc = "circular"
    /\ check_result = "none"
    /\ LexerIdle
    /\ ParserIdle
    /\ DriverIdle
    /\ RerunIdle

NextCycles == CheckCircular \/ CheckReturn

SpecCycles == InitCycles /\ [][NextCycles]_vars

(***************************************************************************)
(* The driver (src/src/main.cpp): one call of compile_file.  The Lexer,    *)
(* the Parser and the TypeChecker it builds are the ones modelled above;   *)
(* the stages hand over to each other through compile_pc.                  *)
(***************************************************************************)
Stages == <<"read_file", "lex_parse", "semantic", "codegen", "write_file">>

\* CppGenerator::generate_header (declared in cpp_generator.h; its body is
\* not part of the sources): the header names the types of the Schema
generate_header(definitions) ==
    [k |-> "header", types |-> [i \in 1..Len(definitions) |-> definitions[i].name]]

\* a driver that goes on to semantic analysis whatever the parser reported
compile_after_parse_unchecked == "semantic"
\* if (parser.has_errors()) { ...; return false; }
compile_after_parse == IF parser_has_errors THEN "return false" ELSE "semantic"

\* the schema of test_ref_in_containers: struct fields of the types
\* array<ref<Entity>> and optional<ref<Entity>>, Entity a struct defined later
RefInContainers ==
    <<"A", "colon", "struct", "lbrace",
          "A", "colon", "array", "langle", "ref", "langle", "Entity", "rangle", "rangle", "comma",
          "B", "colon", "optional", "langle", "ref", "langle", "Entity", "rangle", "rangle",
      "rbrace", "newline",
      "Entity", "colon", "struct", "lbrace", "A", "colon", "u8", "rbrace">>

InitDriver ==
    /\ LexerIdle
    /\ ParserIdle
    /\ CheckerIdle
    /\ DriverIdle
    /\ RerunIdle

\* compile_file returns b
CompileReturns(b) ==
    /\ compile_pc' = "returned"
    /\ compile_result' = b

\* read_file(input_path), Lexer lexer(source): the file cannot be opened (the
\* exception is caught, compile_file returns false), or its text is the source
read_file_throws ==
    /\ CompileReturns("false")
    /\ stages_run' = <<"read_file">>
    /\ UNCHANGED <<lexerVars, parse_pc>>
read_file_returns ==
    /\ UNCHANGED <<position_, line_, column_, lexer_errors_, peeked_token_, returned_token>>
    /\ parse_pc' = "unconstructed"
    /\ compile_pc' = "parse"
    /\ stages_run' = <<"read_file", "lex_parse">>
    /\ UNCHANGED compile_result
CompileReadFile ==
    /\ compile_pc = "idle"
    /\ \/ read_file_throws
       \/ /\ \/ \E n \in 0..MaxPieces : \E w \in [1..n -> CorePieces] : source_' = Render(w)
             \/ \E d \in WellFormed : \E w \in Edits(d) : source_' = Render(w)
             \/ source_' = Render(RefInContainers)
          /\ read_file_returns
    /\ UNCHANGED <<current_token_, parser_errors_, schema, parse_result, output_file>>
    /\ UNCHANGED checkerVars
    /\ UNCHANGED <<rerunVars, mainVars>>

\* Parser parser(lexer); auto schema = parser.parse();
CompileParse ==
    /\ compile_pc = "parse"
    /\ NextParser

\* TypeChecker checker(schema.get())
TypeCheckerConstruct(definitions) ==
    /\ schema_' = definitions
    /\ errors_' = << >>
    /\ symbol_table_' = << >>
    /\ definition_order_' = << >>
    /\ current_definition_index_' = 0
    /\ visiting_' = {}
    /\ visited_' = {}
    /\ cycle_def' = 1
    /\ check_pc' = "new"
    /\ check_result' = "none"

\* parse() has returned: the has_errors() test, then the TypeChecker
CompileParsed ==
    /\ compile_pc = "parse"
    /\ parse_pc = "returned"
    /\ IF compile_after_parse = "return false"
       THEN /\ CompileReturns("false")
            /\ UNCHANGED <<stages_run, checkerVars>>
       ELSE /\ TypeCheckerConstruct(parse_result.definitions)
            /\ compile_pc' = "check"
            /\ stages_run' = Append(stages_run, "semantic")
            /\ UNCHANGED compile_result
    /\ UNCHANGED output_file
    /\ UNCHANGED <<lexerVars, parserVars>>
    /\ UNCHANGED <<rerunVars, mainVars>>

\* checker.check()
CompileCheck ==
    /\ compile_pc = "check"
    /\ NextChecker

\* check() has returned: if (!checker.check()) { ...; return false; }
CompileChecked ==
    /\ compile_pc = "check"
    /\ check_pc = "returned"
    /\ IF check_result /= "true"
       THEN /\ CompileReturns("false")
            /\ UNCHANGED stages_run
       ELSE /\ compile_pc' = "codegen"
            /\ stages_run' = Append(stages_run, "codegen")
            /\ UNCHANGED compile_result
    /\ UNCHANGED output_file
    /\ UNCHANGED <<lexerVars, parserVars, checkerVars>>
    /\ UNCHANGED <<rerunVars, mainVars>>

\* CppGenerator generator(schema.get(), gen_opts); header = generator.generate_header();
CompileGenerate ==
    /\ compile_pc = "codegen"
    /\ compile_pc' = "write"
    /\ stages_run' = Append(stages_run, "write_file")
    /\ UNCHANGED <<output_file, compile_result>>
    /\ UNCHANGED <<lexerVars, parserVars, checkerVars>>
    /\ UNCHANGED <<rerunVars, mainVars>>

\* write_file(output_path, header): the file is written and compile_file returns
\* true, or the path cannot be written (the exception is caught, return false)
CompileWrite ==
    /\ compile_pc = "write"
    /\ \/ /\ output_file' = generate_header(schema_)
          /\ CompileReturns("true")
       \/ /\ UNCHANGED output_file
          /\ CompileReturns("false")
    /\ UNCHANGED stages_run
    /\ UNCHANGED <<lexerVars, parserVars, checkerVars>>
    /\ UNCHANGED <<rerunVars, mainVars>>

NextDriver ==
    \/ CompileReadFile
    \/ CompileParse
    \/ CompileParsed
    \/ CompileCheck
    \/ CompileChecked
    \/ CompileGenerate
    \/ CompileWrite

SpecDriver == InitDriver /\ [][NextDriver]_vars

\* ---- C17: the schema whose struct fields have the types array<ref<Entity>>
\* and optional<ref<Entity>>, Entity being a struct defined later, goes through
\* parsing and semantic analysis without a diagnostic: a ref to a named type
\* is accepted and is no forward reference.
C17_RefToNamedTypeAccepted ==
    source_ = Render(RefInContainers) =>
        /\ parse_pc = "returned" => ~parser_has_errors
        /\ compile_pc = "returned" => check_result = "true"

\* ---- C11: in compile_file the stages are entered strictly in the order
\* read, lex/parse, semantic check, code generation, output write; check() is
\* not run when the parser reported a diagnostic; generate_header() and
\* write_file() are not run unless check() returned true; and so an output
\* file exists only for an input without any lexer, parser or checker diagnostic.
IsPrefix(s, t) == Len(s) <= Len(t) /\ s = SubSeq(t, 1, Len(s))
CheckEntered == check_pc /= "idle"
CodegenEntered == compile_pc \in {"codegen", "write"} \/ output_file /= NoFile
C11_StagesInOrderAndGated ==
    /\ IsPrefix(stages_run, Stages)
    /\ CheckEntered => parse_pc = "returned" /\ parser_errors_ = << >>
    /\ CodegenEntered => check_pc = "returned" /\ check_result = "true"
    /\ output_file /= NoFile =>
           lexer_errors_ = << >> /\ parser_errors_ = << >> /\ errors_ = << >>
    /\ (lexer_errors_ /= << >> \/ parser_errors_ /= << >> \/ errors_ /= << >>) =>
           /\ output_file = NoFile
           /\ compile_result /= "true"
           /\ ~CodegenEntered
\* an input of two definitions went through all the stages and its header was written
C11_Witness ==
    /\ compile_result = "true"
    /\ stages_run = Stages
    /\ output_file /= NoFile
    /\ Len(output_file.types) = 2
\* compile_file returned false after the parser reported, without a TypeChecker
C11_WitnessRefused ==
    /\ compile_result = "false"
    /\ parser_errors_ /= << >>
    /\ stages_run = <<"read_file", "lex_parse">>

\* position a is not behind position b in the text
NotBehind(a, b) == a.line < b.line \/ (a.line = b.line /\ a.column <= b.column)
\* the one ERROR token the Lexer has made so far is the Parser's current token
FirstErrorTokenIsCurrent ==
    /\ current_token_.type = "ERROR"
    /\ Len(lexer_errors_) = 1
    /\ parse_pc \in {"constructed", "loop"}

\* ---- C26: whenever the Lexer emits an ERROR token while parse() runs to
\* completion, the Parser records at least one diagnostic.  No ERROR token is
\* consumed before a diagnostic has been reported: while the Parser has
\* reported nothing, the only ERROR token made is the current token, and the
\* first diagnostic is reported at a token that does not stand behind the first
\* ERROR token.  So has_errors() is true when parse() returns on a source with a
\* lexical error, and compile_file, which reads parser.has_errors() and never
\* lexer.errors(), enters neither semantic analysis nor code generation for it.
C26_LexicalErrorIsAParseError ==
    /\ lexer_errors_ /= << >> => (parser_has_errors \/ FirstErrorTokenIsCurrent)
    /\ (lexer_errors_ /= << >> /\ parser_has_errors)
           => NotBehind(parser_errors_[1], lexer_errors_[1])
    /\ (parse_pc = "returned" /\ lexer_errors_ /= << >>) => parser_has_errors
    /\ lexer_errors_ /= << >> =>
           /\ ~CheckEntered
           /\ ~CodegenEntered
           /\ \A i \in DOMAIN stages_run : stages_run[i] \in {"read_file", "lex_parse"}
           /\ compile_result /= "true"
           /\ output_file = NoFile
\* compile_file returned false on a source whose first definition parsed and
\* whose lexical error came after it; no TypeChecker was made
C26_Witness ==
    /\ compile_pc = "returned"
    /\ compile_result = "false"
    /\ lexer_errors_ /= << >>
    /\ parser_has_errors
    /\ schema /= << >>
    /\ check_pc = "idle"
    /\ stages_run = <<"read_file", "lex_parse">>

(***************************************************************************)
(* The analyzer run on whatever parse() returned, diagnostics or not, as   *)
(* the semantic tests run it: parse(source), then TypeChecker(schema.get())*)
(* and check().                                                            *)
(***************************************************************************)
\* TypeChecker checker(schema.get()) on the Schema parse() returned
CheckParsed ==
    /\ parse_pc = "returned"
    /\ check_pc = "idle"
    /\ TypeCheckerConstruct(parse_result.definitions)
    /\ UNCHANGED <<lexerVars, parserVars, driverVars, rerunVars>>

NextPipeline == NextParser \/ CheckParsed \/ NextChecker

SpecPipeline == InitParser /\ [][NextPipeline]_vars

(***************************************************************************)
(* main (src/src/main.cpp): parse_args over the command line, the three    *)
(* early returns, the loop calling compile_file on every input file and    *)
(* the exit code.                                                          *)
(***************************************************************************)
MaxArgs == 3

\* arg[0] == '-'
StartsWithDash(arg) ==
    arg \in {"-h", "--help", "--version", "-v", "--verbose", "-o", "--output",
             "-n", "--namespace", "-x"}

\* the words of the command lines tried: two input paths, the options and an
\* option parse_args does not know
ArgWords == {"a.carch", "b.carch", "-h", "--version", "-v", "-o", "-n", "-x"}
CommandLines == UNION {[1..n -> ArgWords] : n \in 0..MaxArgs}

\* CommandLineArgs args: the defaults of the struct
DefaultArgs ==
    [input_files |-> << >>, output_dir |-> "generated", namespace_name |-> "game",
     verbose |-> FALSE, help |-> FALSE, version |-> FALSE]

\* parse_args: the body of the loop from argv[i] on
RECURSIVE parse_args_from(_, _, _)
parse_args_from(a, i, r) ==
    IF i > Len(a) THEN r
    ELSE LET arg == a[i] IN
         IF arg \in {"-h", "--help"} THEN
             parse_args_from(a, i + 1, [r EXCEPT !.help = TRUE])
         ELSE IF arg = "--version" THEN
             parse_args_from(a, i + 1, [r EXCEPT !.version = TRUE])
         ELSE IF arg \in {"-v", "--verbose"} THEN
             parse_args_from(a, i + 1, [r EXCEPT !.verbose = TRUE])
         ELSE IF arg \in {"-o", "--output"} THEN
             IF i + 1 <= Len(a)
             THEN parse_args_from(a, i + 2, [r EXCEPT !.output_dir = a[i + 1]])
             ELSE parse_args_from(a, i + 1, [r EXCEPT !.help = TRUE])
         ELSE IF arg \in {"-n", "--namespace"} THEN
             IF i + 1 <= Len(a)
             THEN parse_args_from(a, i + 2, [r EXCEPT !.namespace_name = a[i + 1]])
             ELSE parse_args_from(a, i + 1, [r EXCEPT !.help = TRUE])
         ELSE IF StartsWithDash(arg) THEN
             parse_args_from(a, i + 1, [r EXCEPT !.help = TRUE])
         ELSE
             parse_args_from(a, i + 1, [r EXCEPT !.input_files = Append(@, arg)])

parse_args(a) == parse_args_from(a, 1, DefaultArgs)

\* if (!compile_file(input_file, args)) all_success = false; : the stale
\* variant all_success_last_file_only keeps only the last file's outcome
all_success_last_file_only(before, ok) == ok
all_success_after(before, ok) == IF ~ok THEN FALSE ELSE before

\* the contents the input files are given: a schema that compiles, one the
\* parser rejects, one the lexer rejects, one the analyzer rejects
InputFileContents ==
    {Render(<<"A", "colon", "u8">>),
     Render(<<"A", "colon">>),
     Render(<<"bad">>),
     Render(<<"A", "colon", "B">>)}

InitMain ==
    /\ LexerIdle
    /\ ParserIdle
    /\ CheckerIdle
    /\ RerunIdle
    /\ compile_pc = "idle"
    /\ stages_run = << >>
    /\ output_file = NoFile
    /\ compile_result = "none"
    /\ argv \in CommandLines
    /\ args = NoArgs
    /\ main_pc = "start"
    /\ compiled = << >>
    /\ all_success = TRUE
    /\ exit_code = "none"

\* main returns code
MainReturns(code) ==
    /\ main_pc' = "returned"
    /\ exit_code' = code

\* main up to the loop: parse_args, then the returns on help, on version and
\* on an empty list of input files
MainBegin ==
    /\ main_pc = "start"
    /\ args' = parse_args(argv)
    /\ IF args'.help THEN MainReturns(IF args'.input_files = << >> THEN 0 ELSE 1)
       ELSE IF args'.version THEN MainReturns(0)
       ELSE IF args'.input_files = << >> THEN MainReturns(1)
       ELSE /\ main_pc' = "compile_file"
            /\ UNCHANGED exit_code
    /\ UNCHANGED <<argv, compiled, all_success>>
    /\ UNCHANGED <<lexerVars, parserVars, checkerVars, rerunVars>>
    /\ UNCHANGED <<compile_pc, stages_run, output_file, compile_result>>

\* compile_file(input_file, args), its first statements: read_file fails, or
\* returns what the file holds
MainReadFile ==
    /\ main_pc = "compile_file"
    /\ compile_pc = "idle"
    /\ \/ read_file_throws
       \/ /\ source_' \in InputFileContents
          /\ read_file_returns
    /\ UNCHANGED <<current_token_, parser_errors_, schema, parse_result, output_file>>
    /\ UNCHANGED <<checkerVars, rerunVars, mainVars>>

\* compile_file has returned to the loop: all_success is updated, and either
\* the next call starts, on objects of its own, or the loop is over and main
\* returns all_success ? 0 : 1
MainCompiled ==
    /\ main_pc = "compile_file"
    /\ compile_pc = "returned"
    /\ LET input_file == args.input_files[Len(compiled) + 1]
           ok == compile_result = "true"
       IN /\ compiled' = Append(compiled, [input_file |-> input_file, returned |-> ok])
          /\ all_success' = all_success_after(all_success, ok)
    /\ IF Len(compiled') < Len(args.input_files)
       THEN /\ main_pc' = "compile_file"
            /\ UNCHANGED exit_code
       ELSE MainReturns(IF all_success' THEN 0 ELSE 1)
    /\ source_' = << >> /\ position_' = 0 /\ line_' = 1 /\ column_' = 1
    /\ lexer_errors_' = << >> /\ peeked_token_' = NoToken /\ returned_token' = NoToken
    /\ current_token_' = NoToken /\ parser_errors_' = << >> /\ schema' = << >>
    /\ parse_pc' = "idle" /\ parse_result' = Null
    /\ schema_' = << >> /\ errors_' = << >> /\ symbol_table_' = << >>
    /\ definition_order_' = << >> /\ current_definition_index_' = 0
    /\ visiting_' = {} /\ visited_' = {} /\ cycle_def' = 1
    /\ check_pc' = "idle" /\ check_result' = "none"
    /\ compile_pc' = "idle"
    /\ stages_run' = << >>
    /\ output_file' = NoFile
    /\ compile_result' = "none"
    /\ UNCHANGED <<argv, args>>
    /\ UNCHANGED rerunVars

NextMain ==
    \/ MainBegin
    \/ MainReadFile
    \/ CompileParse
    \/ CompileParsed
    \/ CompileCheck
    \/ CompileChecked
    \/ CompileGenerate
    \/ CompileWrite
    \/ MainCompiled

SpecMain == InitMain /\ [][NextMain]_vars

\* the input paths of a command line: its words that are neither an option
\* nor the argument of -o or -n
RECURSIVE InputPathsFrom(_, _)
InputPathsFrom(a, i) ==
    IF i > Len(a) THEN << >>
    ELSE IF a[i] \in {"-o", "--output", "-n", "--namespace"} THEN InputPathsFrom(a, i + 2)
    ELSE IF StartsWithDash(a[i]) THEN InputPathsFrom(a, i + 1)
    ELSE <<a[i]>> \o InputPathsFrom(a, i + 1)
InputPaths == InputPathsFrom(argv, 1)

\* the options of a command line: its words at the places where parse_args
\* looks for an option
RECURSIVE OptionsFrom(_, _)
OptionsFrom(a, i) ==
    IF i > Len(a) THEN {}
    ELSE IF a[i] \in {"-o", "--output", "-n", "--namespace"}
         THEN {IF i + 1 <= Len(a) THEN a[i] ELSE "missing argument"} \cup OptionsFrom(a, i + 2)
    ELSE IF StartsWithDash(a[i]) THEN {a[i]} \cup OptionsFrom(a, i + 1)
    ELSE OptionsFrom(a, i + 1)
Options == OptionsFrom(argv, 1)

HelpFlagGiven == Options \cap {"-h", "--help"} /= {}
VersionFlagGiven == "--version" \in Options
OptionRejected ==
    \/ "missing argument" \in Options
    \/ Options \ {"-h", "--help", "--version", "-v", "--verbose", "-o", "--output",
                  "-n", "--namespace"} /= {}

\* compile_file was called on every input path, once each and in the order
\* of the command line, and main returned 0 exactly when every call returned
\* true
CompiledEveryInput ==
    /\ Len(compiled) = Len(InputPaths)
    /\ \A i \in 1..Len(compiled) : compiled[i].input_file = InputPaths[i]
    /\ exit_code \in {0, 1}
    /\ exit_code = 0 <=> \A i \in 1..Len(compiled) : compiled[i].returned

C24_WitnessRejected ==
    /\ main_pc = "returned"
    /\ argv = <<"-x", "a.carch">>
    /\ compiled = << >>
    /\ exit_code = 1

(***************************************************************************)
(* What the claims about check() speak of, read off the Schema alone.      *)
(***************************************************************************)
\* every node of a type expression, at any nesting depth
RECURSIVE SubExprs(_)
SubExprs(e) ==
    CASE e.k = "Struct" -> {e} \cup UNION {SubExprs(e.fields[i].type) : i \in DOMAIN e.fields}
      [] e.k = "Variant" ->
            {e} \cup UNION {SubExprs(e.alternatives[i].type) : i \in DOMAIN e.alternatives}
      [] e.k = "Container" ->
            {e} \cup SubExprs(e.element_type) \cup SubExprs(e.key_type) \cup SubExprs(e.value_type)
      [] e.k = "null" -> {}
      [] OTHER -> {e}

SchemaExprs == UNION {SubExprs(schema_[i].type) : i \in DOMAIN schema_}
IdentifiersIn(e) == {x \in SubExprs(e) : x.k = "Identifier"}
SchemaNames == {schema_[i].name : i \in DOMAIN schema_}

IsDistinct(seq) == \A i, j \in DOMAIN seq : i /= j => seq[i] /= seq[j]
MemberNames(e) ==
    CASE e.k = "Struct" -> [i \in DOMAIN e.fields |-> e.fields[i].name]
      [] e.k = "Variant" -> [i \in DOMAIN e.alternatives |-> e.alternatives[i].name]
      [] e.k = "Enum" -> e.values
      [] OTHER -> <<"-">>
DefinitionNamesDistinct == IsDistinct([i \in DOMAIN schema_ |-> schema_[i].name])
MembersDistinctAndPresent(e) == IsDistinct(MemberNames(e)) /\ MemberNames(e) /= << >>

IsOptional(e) == e.k = "Container" /\ e.kind = "OPTIONAL"
DirectlyNestedOptional(e) == IsOptional(e) /\ IsOptional(e.element_type)
\* the nodes below e that are reached through container parameters only
RECURSIVE ContainerDescendants(_)
ContainerDescendants(e) ==
    IF e.k /= "Container" THEN {}
    ELSE LET ps == {e.element_type, e.key_type, e.value_type} \ {Null} IN
         ps \cup UNION {ContainerDescendants(q) : q \in ps}
TransitivelyNestedOptional(e) == IsOptional(e) /\ \E d \in ContainerDescendants(e) : IsOptional(d)
MissingParameter(e) ==
    /\ e.k = "Container"
    /\ IF e.kind = "MAP" THEN e.key_type = Null \/ e.value_type = Null
       ELSE e.element_type = Null

\* the dependency graph: name a -> name b when a definition named a holds Identifier(b)
DependsOn(a, b) ==
    \E i \in DOMAIN schema_ :
        schema_[i].name = a /\ IdentifierTypeNode(b) \in SubExprs(schema_[i].type)
RECURSIVE ReachableIn(_, _)
ReachableIn(S, n) ==
    IF n = 0 THEN S
    ELSE ReachableIn(S \cup {b \in SchemaNames : \E a \in S : DependsOn(a, b)}, n - 1)
ReachableFrom(a) ==
    ReachableIn({b \in SchemaNames : DependsOn(a, b)}, Cardinality(SchemaNames))
SchemaIsCyclic == \E a \in SchemaNames : a \in ReachableFrom(a)

CheckEnded == check_pc \in {"returned", "stack_overflow", "null_deref"}
HasDiag(kind) == \E i \in DOMAIN errors_ : errors_[i].kind = kind

\* Sanity of the stack bound: the leaf walk runs out of stack only on a cyclic schema.
OverflowOnlyOnCycles == check_pc = "stack_overflow" => SchemaIsCyclic
\* Sanity: every cyclic schema whose validation starts ends in the overflow.
CyclesAlwaysOverflow ==
    (SchemaIsCyclic /\ DefinitionNamesDistinct /\ CheckEnded) => check_pc = "stack_overflow"

(***************************************************************************)
(* Claims about check().                                                   *)
(***************************************************************************)

\* C3: check() terminates and returns on every schema, also when definitions
\* refer to themselves or to each other cyclically: the leaf-termination walk
\* never runs out of stack (and never reads through a null node).
C3_LeafWalkAlwaysFinishes == check_pc \notin {"stack_overflow", "null_deref"}

\* C4: for a schema in which a definition depends on itself through Identifier
\* edges, check() returns false and errors() holds a "Circular type dependency
\* detected" diagnostic.
C4_CycleIsReported ==
    (SchemaIsCyclic /\ CheckEnded) => (check_result = "false" /\ HasDiag("Circular"))

\* C5: when check() returns true every Identifier in definition i names a
\* definition of index < i; and a definition that refers to a type defined
\* later makes check() return false with a "Forward reference" diagnostic.
RefersOnlyToEarlier(i) ==
    \A x \in IdentifiersIn(schema_[i].type) : \E j \in 1..(i - 1) : schema_[j].name = x.name
RefersToLater(i) ==
    \E x \in IdentifiersIn(schema_[i].type) :
        \E j \in (i + 1)..Len(schema_) : schema_[j].name = x.name
C5_NoForwardReferences ==
    /\ check_result = "true" => \A i \in DOMAIN schema_ : RefersOnlyToEarlier(i)
    /\ (CheckEnded /\ \E i \in DOMAIN schema_ : RefersToLater(i))
          => (check_result = "false" /\ HasDiag("ForwardReference"))

\* C6: when check() returns true, the definition names are pairwise distinct,
\* and every struct, variant and enum node at any nesting depth has pairwise
\* distinct member names and at least one member.
C6_DistinctAndNonEmpty ==
    check_result = "true" =>
        /\ DefinitionNamesDistinct
        /\ \A e \in SchemaExprs :
              e.k \in {"Struct", "Variant", "Enum"} => MembersDistinctAndPresent(e)
\* a schema check() accepted that holds a struct, variant or enum below a
\* container and one below a field or alternative
C6_Witness ==
    /\ check_result = "true"
    /\ \E e \in SchemaExprs :
          /\ e.k = "Container"
          /\ \E d \in SubExprs(e) : d.k \in {"Struct", "Variant", "Enum"}
    /\ \E e \in SchemaExprs :
          /\ e.k \in {"Struct", "Variant"}
          /\ \E d \in SubExprs(e) \ {e} : d.k \in {"Struct", "Variant", "Enum"}

OtherwiseValid ==
    /\ DefinitionNamesDistinct
    /\ \A i \in DOMAIN schema_ : RefersOnlyToEarlier(i)
    /\ \A e \in SchemaExprs :
          /\ e.k \in {"Struct", "Variant", "Enum"} => MembersDistinctAndPresent(e)
          /\ ~MissingParameter(e)
          /\ ~DirectlyNestedOptional(e)
HoldsRef(i) == RefTypeNode \in SubExprs(schema_[i].type)
C8_RefSchemasAccepted ==
    (OtherwiseValid /\ \E i \in DOMAIN schema_ : HoldsRef(i)) =>
        /\ ~HasDiag("Circular")
        /\ check_pc \notin {"stack_overflow", "null_deref"}
        /\ check_pc = "returned" => check_result = "true"
\* check() has accepted a schema of MaxDefs definitions, each holding ref<entity>
C8_Witness ==
    /\ check_result = "true"
    /\ Len(schema_) = MaxDefs
    /\ \A i \in DOMAIN schema_ : HoldsRef(i)

\* C9: a schema with a duplicate type name, an undefined type reference and a
\* duplicate field name makes check() return false with at least three
\* diagnostics, one for each problem.
HasUndefinedReference ==
    \E x \in SchemaExprs : x.k = "Identifier" /\ x.name \notin SchemaNames
HasDuplicateField ==
    \E e \in SchemaExprs : e.k = "Struct" /\ ~IsDistinct(MemberNames(e))
C9_AllDiagnosticsAccumulate ==
    (CheckEnded /\ ~DefinitionNamesDistinct /\ HasUndefinedReference /\ HasDuplicateField)
        => /\ check_result = "false"
           /\ Len(errors_) >= 3
           /\ HasDiag("DuplicateType") /\ HasDiag("Undefined") /\ HasDiag("DuplicateField")

\* C10: the symbol table is complete before any body is validated, so once
\* definition i has been through check_type_expr its Identifier occurrences
\* have yielded, in order, exactly: "Forward reference" for a name defined
\* later, "Undefined type" for a name never defined, nothing for a name
\* defined earlier (definitions whose containers all have their parameters).
RECURSIVE IdentifierSeq(_)
RECURSIVE IdentifierSeqOfMembers(_, _)
IdentifierSeqOfMembers(ms, i) ==
    IF i > Len(ms) THEN << >>
    ELSE IdentifierSeq(ms[i].type) \o IdentifierSeqOfMembers(ms, i + 1)
IdentifierSeq(e) ==
    CASE e.k = "Identifier" -> <<e.name>>
      [] e.k = "Struct" -> IdentifierSeqOfMembers(e.fields, 1)
      [] e.k = "Variant" -> IdentifierSeqOfMembers(e.alternatives, 1)
      [] e.k = "Container" ->
            IdentifierSeq(e.element_type) \o IdentifierSeq(e.key_type) \o IdentifierSeq(e.value_type)
      [] OTHER -> << >>
RECURSIVE ExpectedIdentifierDiags(_, _, _)
ExpectedIdentifierDiags(names, k, i) ==
    IF k > Len(names) THEN << >>
    ELSE (IF names[k] \notin SchemaNames THEN <<[kind |-> "Undefined", name |-> names[k]]>>
          ELSE IF \E j \in (i + 1)..Len(schema_) : schema_[j].name = names[k]
               THEN <<[kind |-> "ForwardReference", name |-> names[k]]>>
               ELSE << >>)
         \o ExpectedIdentifierDiags(names, k + 1, i)
RECURSIVE IdentifierDiagsOf(_, _)
IdentifierDiagsOf(k, i) ==
    IF k > Len(errors_) THEN << >>
    ELSE (IF /\ errors_[k].kind \in {"Undefined", "ForwardReference"}
             /\ errors_[k].ctx /= << >>
             /\ errors_[k].ctx[1] = schema_[i].name
          THEN <<[kind |-> errors_[k].kind, name |-> errors_[k].name]>> ELSE << >>)
         \o IdentifierDiagsOf(k + 1, i)
Validated(i) ==
    \/ check_pc \in {"definitions", "circular"} /\ i <= current_definition_index_
    \/ check_pc = "returned" /\ ~HasDiag("DuplicateType")
    \/ check_pc \in {"stack_overflow", "null_deref"} /\ i <= current_definition_index_ + 1
HasCycleReachable(a) ==
    \/ a \in ReachableFrom(a)
    \/ \E m \in ReachableFrom(a) : m \in ReachableFrom(m)
IsReportedCircular(a) ==
    \E i \in DOMAIN errors_ : errors_[i].kind = "Circular" /\ errors_[i].name = a

\* ---- C25: has_circular_dependency(N) returns true exactly when a cycle is
\* reachable from definition N by following Identifier edges only (through
\* struct fields, variant alternatives and container parameters, never through
\* ref<entity> or enum values): N is reported when it lies on a cycle and also
\* when it merely depends on a type that lies on one; the names pruned at in
\* the visited set never change the result, which is that of the graph.
C25_CycleSearchIsReachability ==
    /\ check_pc = "circular" =>
           \A i \in DOMAIN schema_ :
               has_circular_dependency(schema_[i].name).has_cycle
                   <=> HasCycleReachable(schema_[i].name)
    /\ \A i \in DOMAIN schema_ :
           i < cycle_def => (IsReportedCircular(schema_[i].name)
                                 <=> HasCycleReachable(schema_[i].name))
\* the first definition was reported though it lies on no cycle: it depends,
\* along two paths, on a later definition that does
C25_Witness ==
    /\ cycle_def > 1
    /\ Len(schema_) = 3
    /\ IsReportedCircular("A")
    /\ "A" \notin ReachableFrom("A")
    /\ DependsOn("A", "B") /\ DependsOn("A", "C") /\ DependsOn("B", "C")

\* the sets never share a name
SetsApart(steps) == \A i \in DOMAIN steps : steps[i].visiting \cap steps[i].visited = {}
\* a name that enters visited was taken out of visiting the step before
VisitedAfterVisiting(steps) ==
    \A i \in DOMAIN steps : i > 1 =>
        \A name \in steps[i].visited \ steps[i - 1].visited :
            /\ i > 2
            /\ name \in steps[i - 2].visiting
            /\ name \notin steps[i - 1].visiting
            /\ name \notin steps[i].visiting
CycleSearchKeepsSetsApart(r) ==
    /\ SetsApart(r.steps)
    /\ VisitedAfterVisiting(r.steps)
    /\ r.visiting = {}
    /\ r.steps[Len(r.steps)] = [visiting |-> r.visiting, visited |-> r.visited]

\* ---- C30: during cycle detection visiting and visited are disjoint at
\* every step (after every clear, insert and erase), a name enters visited
\* only after it has been removed from visiting, and visiting is empty again
\* whenever has_circular_dependency returns, a cycle found or not.
C30_VisitingVisitedDiscipline ==
    /\ visiting_ = {}
    /\ visiting_ \cap visited_ = {}
    /\ check_pc = "circular" =>
           \A i \in DOMAIN schema_ :
               CycleSearchKeepsSetsApart(has_circular_dependency(schema_[i].name))
\* a search that found a cycle has returned, two names behind it in visited
C30_Witness ==
    /\ cycle_def > 1
    /\ IsReportedCircular(schema_[cycle_def - 1].name)
    /\ Cardinality(visited_) >= 2
    /\ visiting_ = {}

(***************************************************************************)
(* Variants whose alternatives are bare names or carry an explicit unit,   *)
(* as in test_variant_parsing: every choice of the two forms for up to     *)
(* TestAlternatives alternatives, on one line or one per line, with and    *)
(* without a comma behind the last; parsed, then checked.                  *)
(***************************************************************************)
TestAlternatives == 3     \* the alternatives of the variant in test_variant_parsing
AlternativeNames == <<"A", "B", "Entity">>
AlternativePieces(name, form) == IF form = "unit" THEN <<name, "colon", "unit">> ELSE <<name>>
RECURSIVE AlternativesPieces(_, _, _)
AlternativesPieces(forms, i, separator) ==
    IF i > Len(forms) THEN << >>
    ELSE AlternativePieces(AlternativeNames[i], forms[i])
             \o (IF i < Len(forms) THEN separator ELSE << >>)
             \o AlternativesPieces(forms, i + 1, separator)
VariantSources ==
    {<<"B", "colon", "variant", "lbrace">> \o opening
         \o AlternativesPieces(forms, 1, <<"comma">> \o opening) \o last \o opening \o <<"rbrace">> :
         forms \in UNION {[1..n -> {"bare", "unit"}] : n \in 1..TestAlternatives},
         opening \in {<< >>, <<"newline">>},
         last \in {<< >>, <<"comma">>}}

InitVariant ==
    /\ \E w \in VariantSources :
           /\ source_pieces = w
           /\ source_ = Spell(w)
    /\ position_ = 0
    /\ line_ = 1
    /\ column_ = 1
    /\ lexer_errors_ = << >>
    /\ peeked_token_ = NoToken
    /\ returned_token = NoToken
    /\ ParserUnconstructed
    /\ first_parse = NoParse
    /\ first_check = NoCheck
    /\ CheckerIdle
    /\ DriverIdle

SpecVariant == InitVariant /\ [][NextPipeline]_vars

\* the alternatives as the pieces between the braces write them, in their order
RECURSIVE WrittenAlternatives(_)
WrittenAlternatives(w) ==
    IF w = << >> \/ Head(w) = "rbrace" THEN << >>
    ELSE IF Head(w) \in {"comma", "newline"} THEN WrittenAlternatives(Tail(w))
    ELSE IF Len(w) >= 3 /\ w[2] = "colon" /\ w[3] = "unit"
         THEN <<AlternativeNode(Head(w), PrimitiveTypeNode("UNIT"))>>
                  \o WrittenAlternatives(SubSeq(w, 4, Len(w)))
         ELSE <<AlternativeNode(Head(w), Null)>> \o WrittenAlternatives(Tail(w))
WrittenVariant ==
    <<TypeDefinitionNode(source_pieces[1],
                         VariantTypeNode(WrittenAlternatives(SubSeq(source_pieces, 5,
                                                                    Len(source_pieces)))))>>

\* ---- C23: a variant alternative written as a bare name gets an absent
\* (null) type, one written 'name: unit' gets a Primitive(UNIT) type; both
\* forms are accepted without diagnostics by the parser and by check(); and
\* the alternatives are stored in source order.
C23_BareAndUnitAlternatives ==
    /\ parse_pc = "returned" =>
           /\ ~parser_has_errors
           /\ lexer_errors_ = << >>
           /\ parse_result.definitions = WrittenVariant
    /\ CheckEntered => schema_ = WrittenVariant
    /\ errors_ = << >>
    /\ check_pc \notin {"stack_overflow", "null_deref"}
    /\ check_pc = "returned" => check_result = "true"
\* the variant of the test (idle: unit, running, jumping; one per line) was
\* parsed and check() returned true
C23_Witness ==
    /\ check_pc = "returned"
    /\ check_result = "true"
    /\ Len(schema_) = 1
    /\ schema_[1].type.k = "Variant"
    /\ [i \in 1..Len(schema_[1].type.alternatives) |-> schema_[1].type.alternatives[i].type]
           = <<PrimitiveTypeNode("UNIT"), Null, Null>>
    /\ \E i \in DOMAIN source_pieces : source_pieces[i] = "newline"

(***************************************************************************)
(* Claims about check() on the trees parse() returns.                      *)
(***************************************************************************)
\* ---- C28: for every AST the parser produces, with or without parse
\* diagnostics, the leaf-termination walk emits no "does not terminate at a
\* primitive or ref type" diagnostic: the nodes that reach its final branch
\* are Primitive, Ref and Enum nodes, all of them leaf types; and the walk is
\* never entered with a null expression (no definition body, field type or
\* followed definition is null; null payloads and parameters are not entered),
\* so report_error never reads through a null node.
C28_LeafWalkNeverReports ==
    /\ ~HasDiag("NonTerminating")
    /\ check_pc /= "null_deref"
    /\ CheckEntered => BodiesAndFieldsPresent(schema_)
    /\ CheckEntered =>
           \A n \in ParsedSchemaNodes(schema_) \ {Null} :
               n.k \in {"Struct", "Variant", "Container", "Identifier"} \/ is_leaf_type(n)
\* check() returned on a Schema parsed with diagnostics that holds a null
\* container parameter and struct fields ending in leaf types
C28_Witness ==
    /\ check_pc = "returned"
    /\ parser_has_errors
    /\ HoldsNullParameter(schema_)
    /\ \E n \in ParsedSchemaNodes(schema_) :
           n.k = "Struct" /\ \E f \in DOMAIN n.fields : is_leaf_type(n.fields[f].type)

====
